---- MODULE Spec2Model ----
(***************************************************************************)
(* Batch orchestrator of the bulk account migration: the POST handler of   *)
(* the processing route (three modes: stripe_only, teams_only, both), the  *)
(* per-record processors and the team phase (processTeamCreation).         *)
(*                                                                         *)
(* One run of POST is modelled.  The handler is a single cooperative       *)
(* thread: it suspends at every await, and the promises of one batch       *)
(* settle in any order.  Optional fields of a ProcessResult are modelled   *)
(* as sequences: <<>> when the field is absent, <<v>> when it is set.      *)
(***************************************************************************)
EXTENDS Integers, Sequences, FiniteSets, TLC

VARIABLES
    body,             \* shape of the request body's customers field
    call,             \* a client function under study and its arguments
    ret,              \* what that function did and returned
    customers,        \* request body: the list of CustomerData
    plan,             \* what the remote services answer for each record
    processingMode,   \* config.processingMode
    pc,               \* position of the POST handler
    i,                \* loop index of the batch loop (0-based offset)
    results,          \* POST: results
    tasks,            \* promises of the batch being awaited
    successfulSubscriptions, \* processTeamCreation: indices of results
    updatedResults,   \* processTeamCreation: updatedResults
    ti,               \* processTeamCreation: loop index
    running,          \* records started and not yet settled
    teamCalls,        \* createTeam requests issued per input position
    log               \* dispatches, fan-ins and timers, in order

\* the variables of the client functions studied on their own
clientVars == <<call, ret>>

vars == <<body, call, ret, customers, plan, processingMode, pc, i, results, tasks,
          successfulSubscriptions, updatedResults, ti, running, teamCalls, log>>

(* ------------------------------ bounds -------------------------------- *)
\* lists of at most SmallN records get every combination of remote answers
SmallN == 3
\* one long list, longer than a billing batch
BigN == 9
\* at most this many records of the long list meet a failing remote call
MaxBigFaults == 1

\* the request-level runs: lists of at most CallsN records
CallsN == 2
\* a list request returns at most this many objects
MaxListed == 1
\* the largest maxRetries withRetry is called with
MaxCap == 4
\* the largest maxRetries createTeamWithRetry is called with
MaxTeamCap == 3
\* the number of setRegion calls followed
MaxRegionCalls == 3
\* a customer has at most this many subscriptions, or one page and one more
MaxSubs == 2
\* a customer has at most this many open invoices, and pending invoice items
MaxOpen == 2

(* ---------------------------- constants ------------------------------- *)
\* limit: 10 of the subscription, invoice and invoice item list requests
ListLimit == 10
StripeBatchSize == 8
TeamsOnlyBatchSize == 3
teamBatchSize == 3
StripeDelayMs == 1000
TeamsDelayMs == 2000
TeamPhaseDelayMs == 2000
SyncDelayMs == 10000

Modes == {"stripe_only", "teams_only", "both"}

Absent == <<>>
Some(x) == <<x>>

Min(a, b) == IF a < b THEN a ELSE b

(* ------------------------- remote behaviour --------------------------- *)
\* found: the customer search returns a customer; canceled: the value of
\* cancelActiveSubscriptions; cleared: the value of clearBillingObjects;
\* created: subscription creation returns a subscription; team: the HTTP
\* status the team endpoint answers with.
PlanOk == [found |-> TRUE, canceled |-> TRUE, cleared |-> TRUE, created |-> TRUE, team |-> 201]
PlanNotFound == [PlanOk EXCEPT !.found = FALSE]
PlanCancelFail == [PlanOk EXCEPT !.canceled = FALSE]
PlanSubFail == [PlanOk EXCEPT !.created = FALSE]
PlanCleanFail == [PlanOk EXCEPT !.cleared = FALSE]
PlanTeamFail == [PlanOk EXCEPT !.team = 500]
\* the team request gets no response at all (network error, timeout)
NoResponse == 0
PlanTeamDown == [PlanOk EXCEPT !.team = NoResponse]

\* the answers a run of the given mode can observe
PlansOf(mode) ==
    IF mode = "teams_only" THEN {PlanOk, PlanTeamFail, PlanTeamDown}
    ELSE IF mode = "stripe_only"
    THEN {PlanOk, PlanNotFound, PlanCancelFail, PlanCleanFail, PlanSubFail}
    ELSE {PlanOk, PlanNotFound, PlanCancelFail, PlanCleanFail, PlanSubFail,
          PlanTeamFail, PlanTeamDown}

(* ------------------------------ inputs -------------------------------- *)
\* email and teamName are the record's position; kindeId is the position
\* too, unless the record repeats the kindeId of the first record.
Customer(k, e) == [kindeId |-> k, email |-> e, teamName |-> e]

DistinctCustomers(n) == [p \in 1..n |-> Customer(p, p)]

DuplicateCustomers(n) ==
    { [p \in 1..n |-> Customer(IF p = b THEN 1 ELSE p, p)] : b \in 2..n }

SmallInputs ==
    UNION { {m} \X ({DistinctCustomers(n)} \cup DuplicateCustomers(n)) \X [1..n -> PlansOf(m)] :
            <<m, n>> \in Modes \X (0..SmallN) }

\* the long list: every record answers PlanOk but the records of one set sick
BigPlans(mode) ==
    UNION { { [p \in 1..BigN |-> IF p \in sick THEN f[p] ELSE PlanOk] :
                f \in [sick -> PlansOf(mode) \ {PlanOk}] } :
            sick \in {s \in SUBSET (1..BigN) : Cardinality(s) <= MaxBigFaults} }

BigInputs ==
    UNION { {m} \X {DistinctCustomers(BigN)} \X BigPlans(m) : m \in Modes }

\* the runs followed request by request: short lists with every
\* combination of answers, and one list longer than a team batch whose
\* records all succeed
LongCallsN == teamBatchSize + 1

CallInputs ==
    UNION { {m} \X {DistinctCustomers(n)} \X [1..n -> PlansOf(m) \ {PlanCleanFail, PlanTeamDown}] :
            <<m, n>> \in Modes \X (0..CallsN) }
    \cup (Modes \X {DistinctCustomers(LongCallsN)} \X {[p \in 1..LongCallsN |-> PlanOk]})

(* ------------------------- record processors -------------------------- *)
BaseResult(customer) ==
    [kindeId |-> customer.kindeId, email |-> customer.email, teamName |-> customer.teamName,
     customerId |-> Absent, subscriptionId |-> Absent, teamId |-> Absent,
     status |-> "none", error |-> Absent, teamError |-> Absent, teamStatus |-> Absent,
     teamResponseData |-> Absent]

\* the id of the customer the search finds for an email, of the
\* subscription created for a customer, of the team created for an owner
CustomerIdOf(email) == email
SubscriptionIdOf(customerId) == customerId
TeamIdOf(kindeId) == kindeId

\* processCustomerStripe, from the answers of the billing client
processCustomerStripe(customer, answers) ==
    IF ~answers.found THEN
        [BaseResult(customer) EXCEPT !.status = "customer_not_found",
                                     !.error = Some("Customer not found in Stripe")]
    ELSE IF ~answers.canceled THEN
        [BaseResult(customer) EXCEPT !.customerId = Some(CustomerIdOf(customer.email)),
                                     !.status = "cancel_failed",
                                     !.error = Some("Failed to cancel existing subscriptions")]
    ELSE IF ~answers.created THEN
        [BaseResult(customer) EXCEPT !.customerId = Some(CustomerIdOf(customer.email)),
                                     !.status = "subscription_failed",
                                     !.error = Some("Failed to create subscription")]
    ELSE
        [BaseResult(customer) EXCEPT !.customerId = Some(CustomerIdOf(customer.email)),
                                     !.subscriptionId = Some(SubscriptionIdOf(CustomerIdOf(customer.email))),
                                     !.status = "success"]

\* the body of a response of the team endpoint
ResponseBody(httpStatus) == [http |-> httpStatus]

\* createTeam, from the HTTP status of the response
createTeam(kindeId, httpStatus) ==
    IF httpStatus = NoResponse
    THEN [success |-> FALSE, teamId |-> Absent, error |-> Some("no response"),
          status |-> Some(0), responseData |-> Absent]
    ELSE IF httpStatus >= 200 /\ httpStatus < 300
    THEN [success |-> TRUE, teamId |-> Some(TeamIdOf(kindeId)), error |-> Absent,
          status |-> Absent, responseData |-> Some(ResponseBody(httpStatus))]
    ELSE [success |-> FALSE, teamId |-> Absent, error |-> Some("HTTP"),
          status |-> Some(httpStatus), responseData |-> Some(ResponseBody(httpStatus))]

processCustomerTeamsOnly(customer, teamResult) ==
    IF teamResult.success THEN
        [BaseResult(customer) EXCEPT !.teamId = teamResult.teamId, !.status = "success"]
    ELSE
        [BaseResult(customer) EXCEPT !.status = "team_creation_failed",
                                     !.error = teamResult.error,
                                     !.teamError = teamResult.error,
                                     !.teamStatus = teamResult.status,
                                     !.teamResponseData = teamResult.responseData]

\* a mapper that builds the outcome afresh instead of spreading ...result
TeamPhaseResultFresh(result, teamResult) == processCustomerTeamsOnly(result, teamResult)

\* the mapper of processTeamCreation: { ...result, ... }
TeamPhaseResult(result, teamResult) ==
    IF teamResult.success THEN
        [result EXCEPT !.teamId = teamResult.teamId, !.status = "success"]
    ELSE
        [result EXCEPT !.status = "team_creation_failed",
                       !.error = teamResult.error,
                       !.teamError = teamResult.error,
                       !.teamStatus = teamResult.status,
                       !.teamResponseData = teamResult.responseData]

(* ------------------------------ helpers ------------------------------- *)
\* one batch size for every mode
batchSizeOfBilling == StripeBatchSize

\* const batchSize = config?.processingMode === 'teams_only' ? 3 : 8
batchSize == IF processingMode = "teams_only" THEN TeamsOnlyBatchSize ELSE StripeBatchSize

\* a slice whose end is one too far: slice(i, i + batchSize + 1)
SliceLong(len, from, size) == [k \in 1..(Min(from + size + 1, len) - from) |-> from + k]

\* a slice whose end is one short: slice(i, i + batchSize - 1)
SliceShort(len, from, size) == [k \in 1..(Min(from + size - 1, len) - from) |-> from + k]

\* customers.slice(i, i + batchSize), as input positions
Slice(len, from, size) == [k \in 1..(Min(from + size, len) - from) |-> from + k]

\* a filter that keeps every record whose customer was found
IsSuccessfulLoose(r) == r.status # "customer_not_found"

IsSuccessful(r) == r.status = "success"

\* no filter: every index of results
FilterNone(rs) == [k \in 1..Len(rs) |-> k]

\* results.filter(r => r.status === 'success'), as indices of results
FilterSuccessful(rs) ==
    LET F[k \in 0..Len(rs)] ==
            IF k = 0 THEN <<>>
            ELSE IF IsSuccessful(rs[k]) THEN Append(F[k - 1], k) ELSE F[k - 1]
    IN F[Len(rs)]

\* a test that never takes the early return
NoSuccessfulSubscriptionsNever(successful) == FALSE

\* successfulSubscriptions.length === 0: processTeamCreation returns early
NoSuccessfulSubscriptions(successful) == Len(successful) = 0

\* a search that finds no entry
FindIndexNone(rs, kindeId) == 0

\* updatedResults.findIndex(r => r.kindeId === kindeId); 0 stands for -1
FindIndex(rs, kindeId) ==
    IF \E k \in 1..Len(rs) : rs[k].kindeId = kindeId
    THEN CHOOSE k \in 1..Len(rs) :
            /\ rs[k].kindeId = kindeId
            /\ \A j \in 1..(k - 1) : rs[j].kindeId # kindeId
    ELSE 0

\* a forEach body that patches the team id into the matched entry
UpdateResultPatch(rs, updatedResult) ==
    LET index == FindIndex(rs, updatedResult.kindeId)
    IN IF index # 0 THEN [rs EXCEPT ![index].teamId = updatedResult.teamId] ELSE rs

\* the body of batchResults.forEach
UpdateResult(rs, updatedResult) ==
    LET index == FindIndex(rs, updatedResult.kindeId)
    IN IF index # 0 THEN [rs EXCEPT ![index] = updatedResult] ELSE rs

UpdateAll(rs, batchResults) ==
    LET U[k \in 0..Len(batchResults)] ==
            IF k = 0 THEN rs ELSE UpdateResult(U[k - 1], batchResults[k])
    IN U[Len(batchResults)]

\* a push that keeps the successful outcomes only
PushResultsSuccessful(rs, batchResults) == rs \o SelectSeq(batchResults, IsSuccessful)

\* results.push(...batchResults)
PushResults(rs, batchResults) == rs \o batchResults

\* a fan-in that resolves with the first promise to settle
FanInReadyAny(ts) == \E k \in 1..Len(ts) : ~ts[k].pending

\* Promise.all resolves when every promise of the batch has settled
FanInReady(ts) == \A k \in 1..Len(ts) : ~ts[k].pending

\* a delay guard that also holds after a final full batch
MoreBatchesInclusive(index, size, len) == index + size <= len

\* the guard of the inter-batch delay
MoreBatches(index, size, len) == index + size < len

\* a loop test that stops one record early: i < length - 1
LoopDoneEarly(index, len) == index + 1 >= len

\* the negation of the loop test i < length
LoopDone(index, len) == index >= len

\* a gathering that stops at the first promise that did not end in success
BatchResultsUntilFailure(ts) ==
    LET V[k \in 0..Len(ts)] ==
            IF k = 0 THEN <<>>
            ELSE IF Len(V[k - 1]) = k - 1 /\ ~ts[k].pending /\ ts[k].value[1].status = "success"
                 THEN Append(V[k - 1], ts[k].value[1])
                 ELSE V[k - 1]
    IN V[Len(ts)]

\* the values the settled promises of a batch resolved with, in batch order
BatchResults(ts) ==
    LET V[k \in 0..Len(ts)] ==
            IF k = 0 THEN <<>>
            ELSE IF ts[k].pending THEN V[k - 1] ELSE Append(V[k - 1], ts[k].value[1])
    IN V[Len(ts)]

Event(ev, phase, recs, ms) == [ev |-> ev, phase |-> phase, recs |-> recs, ms |-> ms]

\* a pending promise: step is the await its processor is suspended at,
\* lists and calls count the list requests and the per-object requests of
\* the cancel/cleanup step that are in flight
Task(position, step) ==
    [pos |-> position, pending |-> TRUE, value |-> Absent, step |-> step, lists |-> 0, calls |-> 0]

Settled(task, value) ==
    [task EXCEPT !.pending = FALSE, !.value = Some(value), !.step = "done", !.lists = 0, !.calls = 0]

NewTasks(positions, step) == [k \in 1..Len(positions) |-> Task(positions[k], step)]

Range(s) == {s[k] : k \in 1..Len(s)}

(* ------------------------------- Init --------------------------------- *)
\* no client function is studied during a run of POST
NoCall == [fn |-> "none"]

Init ==
    /\ \E inp \in SmallInputs \cup BigInputs :
          /\ processingMode = inp[1]
          /\ customers = inp[2]
          /\ plan = inp[3]
    /\ body = "list"
    /\ call = NoCall
    /\ ret = NoCall
    /\ pc = "loop"
    /\ i = 0
    /\ results = <<>>
    /\ tasks = <<>>
    /\ successfulSubscriptions = <<>>
    /\ updatedResults = <<>>
    /\ ti = 0
    /\ running = {}
    /\ teamCalls = [p \in 1..Len(customers) |-> 0]
    /\ log = <<>>

(* ----------------------------- POST loop ------------------------------ *)
\* loop test true: slice the batch and start a processor for each record
DispatchBatch ==
    /\ pc = "loop"
    /\ ~LoopDone(i, Len(customers))
    /\ LET batch == Slice(Len(customers), i, batchSize) IN
          /\ tasks' = NewTasks(batch, IF processingMode = "teams_only" THEN "team" ELSE "lookup")
          /\ running' = running \cup {<<"main", batch[k]>> : k \in 1..Len(batch)}
          /\ teamCalls' = IF processingMode = "teams_only"
                          THEN [p \in DOMAIN teamCalls |->
                                   IF p \in Range(batch) THEN teamCalls[p] + 1 ELSE teamCalls[p]]
                          ELSE teamCalls
          /\ log' = Append(log, Event("dispatch", "main", batch, 0))
    /\ pc' = "await"
    /\ UNCHANGED <<clientVars, body, customers, plan, processingMode, i, results,
                   successfulSubscriptions, updatedResults, ti>>

\* processCustomerStripe of one record runs to its return
SettleStripe(k) ==
    /\ pc = "await"
    /\ processingMode # "teams_only"
    /\ k \in 1..Len(tasks)
    /\ tasks[k].pending
    /\ LET p == tasks[k].pos IN
          /\ tasks' = [tasks EXCEPT ![k] = Settled(@, processCustomerStripe(customers[p], plan[p]))]
          /\ running' = running \ {<<"main", p>>}
    /\ UNCHANGED <<clientVars, body, customers, plan, processingMode, pc, i, results,
                   successfulSubscriptions, updatedResults, ti, teamCalls, log>>

\* processCustomerTeamsOnly of one record: its createTeam request returns
SettleTeamsOnly(k) ==
    /\ pc = "await"
    /\ processingMode = "teams_only"
    /\ k \in 1..Len(tasks)
    /\ tasks[k].pending
    /\ LET p == tasks[k].pos IN
          /\ tasks' = [tasks EXCEPT ![k] =
                          Settled(@, processCustomerTeamsOnly(customers[p],
                                         createTeam(customers[p].kindeId, plan[p].team)))]
          /\ running' = running \ {<<"main", p>>}
    /\ UNCHANGED <<clientVars, body, customers, plan, processingMode, pc, i, results,
                   successfulSubscriptions, updatedResults, ti, teamCalls, log>>

\* Promise.all of the batch resolves; results.push; inter-batch delay or
\* the next iteration
FanIn ==
    /\ pc = "await"
    /\ FanInReady(tasks)
    /\ results' = PushResults(results, BatchResults(tasks))
    /\ tasks' = <<>>
    /\ log' = Append(log, Event("fanin", "main", <<>>, 0))
    /\ IF MoreBatches(i, batchSize, Len(customers))
       THEN pc' = "delay" /\ i' = i
       ELSE pc' = "loop" /\ i' = i + batchSize
    /\ UNCHANGED <<clientVars, body, customers, plan, processingMode, successfulSubscriptions,
                   updatedResults, ti, running, teamCalls>>

\* the inter-batch timer fires
InterBatchDelay ==
    /\ pc = "delay"
    /\ log' = Append(log, Event("delay", "main", <<>>,
                     IF processingMode = "teams_only" THEN TeamsDelayMs ELSE StripeDelayMs))
    /\ i' = i + batchSize
    /\ pc' = "loop"
    /\ UNCHANGED <<clientVars, body, customers, plan, processingMode, results, tasks,
                   successfulSubscriptions, updatedResults, ti, running, teamCalls>>

\* a route whose stripe_only branch falls through to processTeamCreation
LoopExitIntoTeams ==
    /\ pc = "loop"
    /\ LoopDone(i, Len(customers))
    /\ IF processingMode # "teams_only"
       THEN /\ successfulSubscriptions' = FilterSuccessful(results)
            /\ pc' = IF NoSuccessfulSubscriptions(FilterSuccessful(results))
                     THEN "done" ELSE "sync"
       ELSE /\ pc' = "done"
            /\ UNCHANGED successfulSubscriptions
    /\ UNCHANGED <<clientVars, body, customers, plan, processingMode, i, results, tasks,
                   updatedResults, ti, running, teamCalls, log>>

\* a route whose teams_only branch falls through to processTeamCreation
\* too, and asks again for the teams it has just created
LoopExitTeamsAgain ==
    /\ pc = "loop"
    /\ LoopDone(i, Len(customers))
    /\ IF processingMode # "stripe_only"
       THEN /\ successfulSubscriptions' = FilterSuccessful(results)
            /\ pc' = IF NoSuccessfulSubscriptions(FilterSuccessful(results))
                     THEN "done" ELSE "sync"
       ELSE /\ pc' = "done"
            /\ UNCHANGED successfulSubscriptions
    /\ UNCHANGED <<clientVars, body, customers, plan, processingMode, i, results, tasks,
                   updatedResults, ti, running, teamCalls, log>>

\* loop test false: stripe_only and teams_only respond; both enters
\* processTeamCreation, which returns at once when nothing succeeded
LoopExit ==
    /\ pc = "loop"
    /\ LoopDone(i, Len(customers))
    /\ IF processingMode = "both"
       THEN /\ successfulSubscriptions' = FilterSuccessful(results)
            /\ pc' = IF NoSuccessfulSubscriptions(FilterSuccessful(results))
                     THEN "done" ELSE "sync"
       ELSE /\ pc' = "done"
            /\ UNCHANGED successfulSubscriptions
    /\ UNCHANGED <<clientVars, body, customers, plan, processingMode, i, results, tasks,
                   updatedResults, ti, running, teamCalls, log>>

(* ------------------------ processTeamCreation ------------------------- *)
\* the 10s wait ends; updatedResults = [...results]
SyncDelay ==
    /\ pc = "sync"
    /\ updatedResults' = results
    /\ ti' = 0
    /\ log' = Append(log, Event("delay", "sync", <<>>, SyncDelayMs))
    /\ pc' = "tloop"
    /\ UNCHANGED <<clientVars, body, customers, plan, processingMode, i, results, tasks,
                   successfulSubscriptions, running, teamCalls>>

\* loop test true: slice the team batch and issue createTeam for each
TeamDispatch ==
    /\ pc = "tloop"
    /\ ~LoopDone(ti, Len(successfulSubscriptions))
    /\ LET idx == Slice(Len(successfulSubscriptions), ti, teamBatchSize)
           batch == [k \in 1..Len(idx) |-> successfulSubscriptions[idx[k]]]
       IN /\ tasks' = NewTasks(batch, "team")
          /\ running' = running \cup {<<"team", batch[k]>> : k \in 1..Len(batch)}
          /\ teamCalls' = [p \in DOMAIN teamCalls |->
                              IF p \in Range(batch) THEN teamCalls[p] + 1 ELSE teamCalls[p]]
          /\ log' = Append(log, Event("dispatch", "team", batch, 0))
    /\ pc' = "tawait"
    /\ UNCHANGED <<clientVars, body, customers, plan, processingMode, i, results,
                   successfulSubscriptions, updatedResults, ti>>

\* one createTeam of the team batch returns
TeamSettle(k) ==
    /\ pc = "tawait"
    /\ k \in 1..Len(tasks)
    /\ tasks[k].pending
    /\ LET p == tasks[k].pos
           value == TeamPhaseResult(results[p], createTeam(results[p].kindeId, plan[p].team))
       IN /\ tasks' = [tasks EXCEPT ![k] = Settled(@, value)]
          /\ running' = running \ {<<"team", p>>}
    /\ UNCHANGED <<clientVars, body, customers, plan, processingMode, pc, i, results,
                   successfulSubscriptions, updatedResults, ti, teamCalls, log>>

\* Promise.all of the team batch resolves; the forEach rewrites
\* updatedResults; delay or next iteration
TeamFanIn ==
    /\ pc = "tawait"
    /\ FanInReady(tasks)
    /\ updatedResults' = UpdateAll(updatedResults, BatchResults(tasks))
    /\ tasks' = <<>>
    /\ log' = Append(log, Event("fanin", "team", <<>>, 0))
    /\ IF MoreBatches(ti, teamBatchSize, Len(successfulSubscriptions))
       THEN pc' = "tdelay" /\ ti' = ti
       ELSE pc' = "tloop" /\ ti' = ti + teamBatchSize
    /\ UNCHANGED <<clientVars, body, customers, plan, processingMode, i, results,
                   successfulSubscriptions, running, teamCalls>>

TeamDelay ==
    /\ pc = "tdelay"
    /\ log' = Append(log, Event("delay", "team", <<>>, TeamPhaseDelayMs))
    /\ ti' = ti + teamBatchSize
    /\ pc' = "tloop"
    /\ UNCHANGED <<clientVars, body, customers, plan, processingMode, i, results, tasks,
                   successfulSubscriptions, updatedResults, running, teamCalls>>

\* processTeamCreation returns updatedResults; results.splice(0, n, ...)
TeamLoopExit ==
    /\ pc = "tloop"
    /\ LoopDone(ti, Len(successfulSubscriptions))
    /\ results' = updatedResults
    /\ pc' = "done"
    /\ UNCHANGED <<clientVars, body, customers, plan, processingMode, i, tasks,
                   successfulSubscriptions, updatedResults, ti, running, teamCalls, log>>

Next ==
    \/ DispatchBatch
    \/ \E k \in DOMAIN tasks : SettleStripe(k)
    \/ \E k \in DOMAIN tasks : SettleTeamsOnly(k)
    \/ FanIn
    \/ InterBatchDelay
    \/ LoopExit
    \/ SyncDelay
    \/ TeamDispatch
    \/ \E k \in DOMAIN tasks : TeamSettle(k)
    \/ TeamFanIn
    \/ TeamDelay
    \/ TeamLoopExit

Spec == Init /\ [][Next]_vars

(* --------------- processCustomerStripe, request by request ------------ *)
\* the remote requests a pending processor has in flight
InFlight(task) ==
    IF task.step \in {"lookup", "create", "team"} THEN 1
    ELSE IF task.step = "cleanup" THEN task.lists + task.calls
    ELSE 0

\* Promise.all([cancelActiveSubscriptions, clearBillingObjects]) starts the
\* subscription list, the invoice list and the invoice item list together
CleanupStarted(task) == [task EXCEPT !.step = "cleanup", !.lists = 3, !.calls = 0]

\* a processor that starts the cancel/cleanup step again whenever the
\* cancellation failed
AfterCleanupRequestAgain(task, customer, answers) ==
    IF task.lists + task.calls > 0 THEN task
    ELSE IF ~answers.canceled THEN CleanupStarted(task)
    ELSE [task EXCEPT !.step = "backoff"]

\* the step after a request of the cancel/cleanup step returned: when
\* nothing is in flight any more Promise.all resolves, and the processor
\* returns cancel_failed or starts the 300 ms pause
AfterCleanupRequest(task, customer, answers) ==
    IF task.lists + task.calls > 0 THEN task
    ELSE IF ~answers.canceled THEN Settled(task, processCustomerStripe(customer, answers))
    ELSE [task EXCEPT !.step = "backoff"]

StillRunning(k) == IF tasks'[k].pending THEN running ELSE running \ {<<"main", tasks[k].pos>>}

\* a lookup whose answer is never tested: the processor goes on to the
\* cancel/cleanup step whatever the search returned
LookupReturnsUntested(k) ==
    /\ pc = "await"
    /\ k \in 1..Len(tasks)
    /\ tasks[k].step = "lookup"
    /\ tasks' = [tasks EXCEPT ![k] = CleanupStarted(@)]
    /\ running' = StillRunning(k)
    /\ UNCHANGED <<clientVars, body, customers, plan, processingMode, pc, i, results,
                   successfulSubscriptions, updatedResults, ti, teamCalls, log>>

\* findCustomerByEmail returns: null ends the processor with
\* customer_not_found, a customer starts the cancel/cleanup step
LookupReturns(k) ==
    /\ pc = "await"
    /\ k \in 1..Len(tasks)
    /\ tasks[k].step = "lookup"
    /\ LET p == tasks[k].pos IN
          tasks' = [tasks EXCEPT ![k] =
                       IF plan[p].found THEN CleanupStarted(@)
                       ELSE Settled(@, processCustomerStripe(customers[p], plan[p]))]
    /\ running' = StillRunning(k)
    /\ UNCHANGED <<clientVars, body, customers, plan, processingMode, pc, i, results,
                   successfulSubscriptions, updatedResults, ti, teamCalls, log>>

\* one of the three list requests returns n objects; a cancel, void or
\* delete request is issued for each of them
ListReturns(k, n) ==
    /\ pc = "await"
    /\ k \in 1..Len(tasks)
    /\ tasks[k].step = "cleanup"
    /\ tasks[k].lists > 0
    /\ LET p == tasks[k].pos IN
          tasks' = [tasks EXCEPT ![k] =
                       AfterCleanupRequest([@ EXCEPT !.lists = @ - 1, !.calls = @ + n],
                                           customers[p], plan[p])]
    /\ running' = StillRunning(k)
    /\ UNCHANGED <<clientVars, body, customers, plan, processingMode, pc, i, results,
                   successfulSubscriptions, updatedResults, ti, teamCalls, log>>

\* one cancel, void or delete request returns
CallReturns(k) ==
    /\ pc = "await"
    /\ k \in 1..Len(tasks)
    /\ tasks[k].step = "cleanup"
    /\ tasks[k].calls > 0
    /\ LET p == tasks[k].pos IN
          tasks' = [tasks EXCEPT ![k] =
                       AfterCleanupRequest([@ EXCEPT !.calls = @ - 1], customers[p], plan[p])]
    /\ running' = StillRunning(k)
    /\ UNCHANGED <<clientVars, body, customers, plan, processingMode, pc, i, results,
                   successfulSubscriptions, updatedResults, ti, teamCalls, log>>

\* the 300 ms pause ends; the subscription is requested
BackoffEnds(k) ==
    /\ pc = "await"
    /\ k \in 1..Len(tasks)
    /\ tasks[k].step = "backoff"
    /\ tasks' = [tasks EXCEPT ![k].step = "create"]
    /\ UNCHANGED <<clientVars, body, customers, plan, processingMode, pc, i, results,
                   successfulSubscriptions, updatedResults, ti, running, teamCalls, log>>

\* a processor that asks for the subscription again when the request failed
CreateReturnsAgain(k) ==
    /\ pc = "await"
    /\ k \in 1..Len(tasks)
    /\ tasks[k].step = "create"
    /\ LET p == tasks[k].pos IN
          tasks' = [tasks EXCEPT ![k] =
                       IF plan[p].created
                       THEN Settled(@, processCustomerStripe(customers[p], plan[p]))
                       ELSE [@ EXCEPT !.step = "backoff"]]
    /\ running' = StillRunning(k)
    /\ UNCHANGED <<clientVars, body, customers, plan, processingMode, pc, i, results,
                   successfulSubscriptions, updatedResults, ti, teamCalls, log>>

\* createCADSubscriptionWithCoupon returns
CreateReturns(k) ==
    /\ pc = "await"
    /\ k \in 1..Len(tasks)
    /\ tasks[k].step = "create"
    /\ LET p == tasks[k].pos IN
          tasks' = [tasks EXCEPT ![k] = Settled(@, processCustomerStripe(customers[p], plan[p]))]
    /\ running' = StillRunning(k)
    /\ UNCHANGED <<clientVars, body, customers, plan, processingMode, pc, i, results,
                   successfulSubscriptions, updatedResults, ti, teamCalls, log>>

InitCalls ==
    /\ \E inp \in CallInputs :
          /\ processingMode = inp[1]
          /\ customers = inp[2]
          /\ plan = inp[3]
    /\ body = "list"
    /\ call = NoCall
    /\ ret = NoCall
    /\ pc = "loop"
    /\ i = 0
    /\ results = <<>>
    /\ tasks = <<>>
    /\ successfulSubscriptions = <<>>
    /\ updatedResults = <<>>
    /\ ti = 0
    /\ running = {}
    /\ teamCalls = [p \in 1..Len(customers) |-> 0]
    /\ log = <<>>

NextCalls ==
    \/ DispatchBatch
    \/ \E k \in DOMAIN tasks : LookupReturns(k)
    \/ \E k \in DOMAIN tasks, n \in 0..Min(MaxListed, ListLimit) : ListReturns(k, n)
    \/ \E k \in DOMAIN tasks : CallReturns(k)
    \/ \E k \in DOMAIN tasks : BackoffEnds(k)
    \/ \E k \in DOMAIN tasks : CreateReturns(k)
    \/ \E k \in DOMAIN tasks : SettleTeamsOnly(k)
    \/ FanIn
    \/ InterBatchDelay
    \/ LoopExit
    \/ SyncDelay
    \/ TeamDispatch
    \/ \E k \in DOMAIN tasks : TeamSettle(k)
    \/ TeamFanIn
    \/ TeamDelay
    \/ TeamLoopExit

SpecCalls == InitCalls /\ [][NextCalls]_vars

\* the runs followed to their end: the lists one record shorter than the
\* longest of CallInputs in every mode, and the long list in the modes both
\* and teams_only (a stripe_only run of it is the main loop of the both run)
LiveInputs ==
    {inp \in CallInputs :
        \/ Len(inp[2]) < CallsN
        \/ Len(inp[2]) = LongCallsN /\ inp[1] # "stripe_only"}

InitCallsLive ==
    /\ InitCalls
    /\ <<processingMode, customers, plan>> \in LiveInputs

\* every remote call and every timer of a run completes, and the code
\* between two awaits runs: some step of the run is taken while one is enabled
SpecCallsLive == InitCallsLive /\ [][NextCalls]_vars /\ WF_vars(NextCalls)

(* ------------------- POST, from the request body on ------------------- *)
\* what the customers field of the parsed body can be: an array, absent,
\* or a value of another type
BodyKinds == {"list", "undefined", "null", "empty_string", "zero", "object", "string", "number"}

\* the values for which !customers is true
Falsy == {"undefined", "null", "empty_string", "zero"}

IsArray(b) == b = "list"

\* a validation that only tests !customers
InvalidCustomersFalsyOnly(b) == b \in Falsy

\* !customers || !Array.isArray(customers)
InvalidCustomers(b) == b \in Falsy \/ ~IsArray(b)

InitRequest ==
    /\ \E b \in BodyKinds :
          /\ body = b
          /\ IF IsArray(b)
             THEN \E inp \in CallInputs :
                      /\ processingMode = inp[1]
                      /\ customers = inp[2]
                      /\ plan = inp[3]
             ELSE /\ processingMode \in Modes
                  /\ customers = <<>>
                  /\ plan = <<>>
    /\ call = NoCall
    /\ ret = NoCall
    /\ pc = "start"
    /\ i = 0
    /\ results = <<>>
    /\ tasks = <<>>
    /\ successfulSubscriptions = <<>>
    /\ updatedResults = <<>>
    /\ ti = 0
    /\ running = {}
    /\ teamCalls = [p \in 1..Len(customers) |-> 0]
    /\ log = <<>>

\* the validation of the body: return the 400 response, or go on to the loop
ValidateRequest ==
    /\ pc = "start"
    /\ pc' = IF InvalidCustomers(body) THEN "rejected" ELSE "loop"
    /\ UNCHANGED <<clientVars, body, customers, plan, processingMode, i, results, tasks,
                   successfulSubscriptions, updatedResults, ti, running, teamCalls, log>>

\* the response POST has returned, if it has
Response ==
    IF pc = "rejected" THEN [status |-> 400, error |-> Some("Invalid customers data"), results |-> Absent]
    ELSE IF pc = "done" THEN [status |-> 200, error |-> Absent, results |-> Some(results)]
    ELSE [status |-> 0, error |-> Absent, results |-> Absent]

NextRequest ==
    \/ ValidateRequest
    \/ DispatchBatch
    \/ \E k \in DOMAIN tasks : SettleStripe(k)
    \/ \E k \in DOMAIN tasks : SettleTeamsOnly(k)
    \/ FanIn
    \/ InterBatchDelay
    \/ LoopExit
    \/ SyncDelay
    \/ TeamDispatch
    \/ \E k \in DOMAIN tasks : TeamSettle(k)
    \/ TeamFanIn
    \/ TeamDelay
    \/ TeamLoopExit

SpecRequest == InitRequest /\ [][NextRequest]_vars

(* ------------------------------ withRetry ----------------------------- *)
\* call = [fn, maxRetries, baseDelay]; ret = [pc, attempt, trace, result],
\* where trace lists what the wrapper did: invoke, value, error, wait
RECURSIVE Pow2(_)
Pow2(n) == IF n = 0 THEN 1 ELSE 2 * Pow2(n - 1)

\* the errors the wrapped operation can reject with
RateLimitError == [type |-> Some("StripeRateLimitError"), message |-> "Too many requests"]
ApiError == [type |-> Some("StripeAPIError"), message |-> "An error occurred"]
UntypedError == [type |-> Absent, message |-> "socket hang up"]
OperationErrors == {RateLimitError, ApiError, UntypedError}

\* new Error('Max retries reached')
MaxRetriesError == [type |-> Absent, message |-> "Max retries reached"]

\* a test that takes every error for a rate-limit error
IsRateLimitErrorAny(error) == TRUE

\* error.type === 'StripeRateLimitError'
IsRateLimitError(error) == error.type = Some("StripeRateLimitError")

\* a guard that also waits after the last attempt
ShouldRetryAlways(error, attempt, maxRetries) == IsRateLimitError(error)

ShouldRetry(error, attempt, maxRetries) == IsRateLimitError(error) /\ attempt < maxRetries

\* a delay that does not grow
BackoffDelayFlat(baseDelay, attempt) == baseDelay

\* baseDelay * Math.pow(2, attempt - 1)
BackoffDelay(baseDelay, attempt) == baseDelay * Pow2(attempt - 1)

Did(ev, n, err) == [ev |-> ev, n |-> n, err |-> err]

Pending == [kind |-> "pending", error |-> Absent]
Value == [kind |-> "value", error |-> Absent]
Thrown(error) == [kind |-> "error", error |-> Some(error)]

\* the default arguments and the arguments explored
DefaultBaseDelay == 1000
OtherBaseDelay == 250
WithRetryCalls ==
    [fn : {"withRetry"}, maxRetries : 0..MaxCap, baseDelay : {DefaultBaseDelay, OtherBaseDelay}]

\* the loop test holds: await operation()
WithRetryInvoke ==
    /\ call.fn = "withRetry" /\ ret.pc = "top"
    /\ ret.attempt <= call.maxRetries
    /\ ret' = [ret EXCEPT !.pc = "called", !.trace = Append(@, Did("invoke", ret.attempt, Absent))]
    /\ UNCHANGED <<call, body, customers, plan, processingMode, pc, i, results, tasks,
                   successfulSubscriptions, updatedResults, ti, running, teamCalls, log>>

\* the loop test fails: throw new Error('Max retries reached')
WithRetryLoopEnds ==
    /\ call.fn = "withRetry" /\ ret.pc = "top"
    /\ ret.attempt > call.maxRetries
    /\ ret' = [ret EXCEPT !.pc = "thrown", !.result = Thrown(MaxRetriesError)]
    /\ UNCHANGED <<call, body, customers, plan, processingMode, pc, i, results, tasks,
                   successfulSubscriptions, updatedResults, ti, running, teamCalls, log>>

\* the operation resolves: return its value
WithRetryResolves ==
    /\ call.fn = "withRetry" /\ ret.pc = "called"
    /\ ret' = [ret EXCEPT !.pc = "returned", !.result = Value,
                          !.trace = Append(@, Did("value", ret.attempt, Absent))]
    /\ UNCHANGED <<call, body, customers, plan, processingMode, pc, i, results, tasks,
                   successfulSubscriptions, updatedResults, ti, running, teamCalls, log>>

\* the operation rejects: start the backoff timer, or rethrow the error
WithRetryRejects(error) ==
    /\ call.fn = "withRetry" /\ ret.pc = "called"
    /\ IF ShouldRetry(error, ret.attempt, call.maxRetries)
       THEN ret' = [ret EXCEPT !.pc = "waiting",
                               !.trace = @ \o <<Did("error", ret.attempt, Some(error)),
                                                Did("wait", BackoffDelay(call.baseDelay, ret.attempt), Absent)>>]
       ELSE ret' = [ret EXCEPT !.pc = "thrown", !.result = Thrown(error),
                               !.trace = Append(@, Did("error", ret.attempt, Some(error)))]
    /\ UNCHANGED <<call, body, customers, plan, processingMode, pc, i, results, tasks,
                   successfulSubscriptions, updatedResults, ti, running, teamCalls, log>>

\* the backoff timer fires: continue with attempt + 1
WithRetryWaitEnds ==
    /\ call.fn = "withRetry" /\ ret.pc = "waiting"
    /\ ret' = [ret EXCEPT !.pc = "top", !.attempt = @ + 1]
    /\ UNCHANGED <<call, body, customers, plan, processingMode, pc, i, results, tasks,
                   successfulSubscriptions, updatedResults, ti, running, teamCalls, log>>

(* ------------------------- createTeamWithRetry ------------------------ *)
\* call = [fn, maxRetries, kindeId]; the trace lists request, response, wait
TeamRetryWaitMs == 3000

\* the answers of the team endpoint: an HTTP status, or no response
TeamAnswers == {201, 401, 404, 500, NoResponse}

TeamRetryCalls == [fn : {"createTeamWithRetry"}, maxRetries : 0..MaxTeamCap, kindeId : {1}]

\* a test that only knows the auth error
IsFinalFailure401Only(result) == result.status = Some(401)

\* result.status === 401 || result.status === 404
IsFinalFailure(result) == result.status = Some(401) \/ result.status = Some(404)

\* the loop test holds: await createTeam(kindeId, teamName)
TeamRetryRequest ==
    /\ call.fn = "createTeamWithRetry" /\ ret.pc = "top"
    /\ ret.attempt <= call.maxRetries
    /\ ret' = [ret EXCEPT !.pc = "called", !.trace = Append(@, Did("request", ret.attempt, Absent))]
    /\ UNCHANGED <<call, body, customers, plan, processingMode, pc, i, results, tasks,
                   successfulSubscriptions, updatedResults, ti, running, teamCalls, log>>

\* createTeam returns inside the loop
TeamRetryResponds(answer) ==
    /\ call.fn = "createTeamWithRetry" /\ ret.pc = "called"
    /\ LET result == createTeam(call.kindeId, answer)
           seen == Append(ret.trace, Did("response", answer, Absent))
       IN IF result.success \/ IsFinalFailure(result)
          THEN ret' = [ret EXCEPT !.pc = "returned", !.result = result, !.trace = seen]
          ELSE IF ret.attempt < call.maxRetries
          THEN ret' = [ret EXCEPT !.pc = "waiting",
                                  !.trace = Append(seen, Did("wait", TeamRetryWaitMs, Absent))]
          ELSE ret' = [ret EXCEPT !.pc = "top", !.attempt = @ + 1, !.trace = seen]
    /\ UNCHANGED <<call, body, customers, plan, processingMode, pc, i, results, tasks,
                   successfulSubscriptions, updatedResults, ti, running, teamCalls, log>>

\* the 3 s timer fires: attempt++
TeamRetryWaitEnds ==
    /\ call.fn = "createTeamWithRetry" /\ ret.pc = "waiting"
    /\ ret' = [ret EXCEPT !.pc = "top", !.attempt = @ + 1]
    /\ UNCHANGED <<call, body, customers, plan, processingMode, pc, i, results, tasks,
                   successfulSubscriptions, updatedResults, ti, running, teamCalls, log>>

\* the loop test fails: return await createTeam(kindeId, teamName)
TeamRetryLastRequest ==
    /\ call.fn = "createTeamWithRetry" /\ ret.pc = "top"
    /\ ret.attempt > call.maxRetries
    /\ ret' = [ret EXCEPT !.pc = "last", !.trace = Append(@, Did("request", ret.attempt, Absent))]
    /\ UNCHANGED <<call, body, customers, plan, processingMode, pc, i, results, tasks,
                   successfulSubscriptions, updatedResults, ti, running, teamCalls, log>>

\* the request issued after the loop returns
TeamRetryLastResponds(answer) ==
    /\ call.fn = "createTeamWithRetry" /\ ret.pc = "last"
    /\ ret' = [ret EXCEPT !.pc = "returned", !.result = createTeam(call.kindeId, answer),
                          !.trace = Append(@, Did("response", answer, Absent))]
    /\ UNCHANGED <<call, body, customers, plan, processingMode, pc, i, results, tasks,
                   successfulSubscriptions, updatedResults, ti, running, teamCalls, log>>

\* a call of one of the two functions, no request of POST being served
InitRetry ==
    /\ call \in WithRetryCalls \cup TeamRetryCalls
    /\ ret = [pc |-> "top", attempt |-> 1, trace |-> <<>>, result |-> Pending]
    /\ body = "list"
    /\ customers = <<>>
    /\ plan = <<>>
    /\ processingMode = "both"
    /\ pc = "idle"
    /\ i = 0
    /\ results = <<>>
    /\ tasks = <<>>
    /\ successfulSubscriptions = <<>>
    /\ updatedResults = <<>>
    /\ ti = 0
    /\ running = {}
    /\ teamCalls = <<>>
    /\ log = <<>>

NextRetry ==
    \/ WithRetryInvoke
    \/ WithRetryLoopEnds
    \/ WithRetryResolves
    \/ \E error \in OperationErrors : WithRetryRejects(error)
    \/ WithRetryWaitEnds
    \/ TeamRetryRequest
    \/ \E answer \in TeamAnswers : TeamRetryResponds(answer)
    \/ TeamRetryWaitEnds
    \/ TeamRetryLastRequest
    \/ \E answer \in TeamAnswers : TeamRetryLastResponds(answer)

SpecRetry == InitRetry /\ [][NextRetry]_vars

\* every invocation, request and timer of a call completes
SpecRetryLive == InitRetry /\ [][NextRetry]_vars /\ WF_vars(NextRetry)

(* ------------------------------ setRegion ----------------------------- *)
\* call = [fn]; ret = [currentRegion, calls], calls the arguments of the
\* setRegion calls made so far
RegionCodes == {"ca", "us", "au", "eu", "uk"}

\* REGION_URLS is an object literal: besides its own five keys it has the
\* members it inherits from Object.prototype
InheritedKeys == {"constructor", "toString", "__proto__"}

\* strings that name no property of REGION_URLS
UnknownNames == {"", "xx", "CA"}

RegionInputs == RegionCodes \cup InheritedKeys \cup UnknownNames

\* region in REGION_URLS: true for own and for inherited properties
InRegionUrls(region) == region \in RegionCodes \cup InheritedKeys

\* REGION_URLS[region]
RegionUrl(region) ==
    IF region \in RegionCodes THEN [kind |-> "url", region |-> region]
    ELSE IF region \in InheritedKeys THEN [kind |-> "prototype member", region |-> region]
    ELSE [kind |-> "undefined", region |-> region]

RegionUrls == {RegionUrl(region) : region \in RegionCodes}

\* getCurrentRegionUrl()
getCurrentRegionUrl == RegionUrl(ret.currentRegion)

\* let currentRegion = 'ca'
InitRegion ==
    /\ call = [fn |-> "setRegion"]
    /\ ret = [currentRegion |-> "ca", calls |-> <<>>]
    /\ body = "list"
    /\ customers = <<>>
    /\ plan = <<>>
    /\ processingMode = "both"
    /\ pc = "idle"
    /\ i = 0
    /\ results = <<>>
    /\ tasks = <<>>
    /\ successfulSubscriptions = <<>>
    /\ updatedResults = <<>>
    /\ ti = 0
    /\ running = {}
    /\ teamCalls = <<>>
    /\ log = <<>>

setRegion(region) ==
    /\ call.fn = "setRegion"
    /\ Len(ret.calls) < MaxRegionCalls
    /\ ret' = [currentRegion |-> IF InRegionUrls(region) THEN region ELSE ret.currentRegion,
               calls |-> Append(ret.calls, region)]
    /\ UNCHANGED <<call, body, customers, plan, processingMode, pc, i, results, tasks,
                   successfulSubscriptions, updatedResults, ti, running, teamCalls, log>>

NextRegion == \E region \in RegionInputs : setRegion(region)

SpecRegion == InitRegion /\ [][NextRegion]_vars

(* ------------------------------ createTeam ---------------------------- *)
\* call = [fn, kindeId]; ret = [pc, requests, response, result]. A response
\* is [status, data]; data is what axios parsed from the body: whether there
\* is one, its id, the kind of its detail field and its message field
HttpStatuses == {199, 200, 201, 299, 300, 401, 403, 404, 422, 500}

DetailKinds == {"none", "string", "object", "object with msg"}

Data(present, id, detail, message) ==
    [present |-> present, id |-> id, detail |-> detail, message |-> message]

\* the bodies of a response that reports a created team
CreatedBodies(kindeId) ==
    {Data(TRUE, Some(TeamIdOf(kindeId)), "none", m) : m \in {Absent, Some("created")}}

\* the bodies of any other response: none at all, or an object with or
\* without detail and message
ErrorBodies ==
    {Data(FALSE, Absent, "none", Absent)}
    \cup {Data(TRUE, Absent, d, m) : <<d, m>> \in DetailKinds \X {Absent, Some("failed")}}

IsCreatedStatus(status) == status >= 200 /\ status < 300

TeamResponses(kindeId) ==
    {[status |-> st, data |-> d] :
        <<st, d>> \in {sd \in HttpStatuses \X (CreatedBodies(kindeId) \cup ErrorBodies) :
                          IsCreatedStatus(sd[1]) <=> sd[2] \in CreatedBodies(kindeId)}}

Message(from, status) == [from |-> from, status |-> status]

\* an order of preference that looks at message first
ErrorMessageMessageFirst(status, data) ==
    IF data.message # Absent THEN Message("message", 0)
    ELSE IF data.detail = "object with msg" THEN Message("detail.msg", 0)
    ELSE IF data.detail = "string" THEN Message("detail", 0)
    ELSE IF data.detail = "object" THEN Message("JSON of detail", 0)
    ELSE Message("HTTP status", status)

\* errorMessage: detail.msg, else detail (as it is when a string, else as
\* JSON), else message, else `HTTP ${status}`
ErrorMessage(status, data) ==
    IF data.detail = "object with msg" THEN Message("detail.msg", 0)
    ELSE IF data.detail = "string" THEN Message("detail", 0)
    ELSE IF data.detail = "object" THEN Message("JSON of detail", 0)
    ELSE IF data.message # Absent THEN Message("message", 0)
    ELSE Message("HTTP status", status)

\* what createTeam returns for a response
TeamResultOfResponse(response) ==
    IF IsCreatedStatus(response.status)
    THEN [success |-> TRUE, teamId |-> response.data.id, error |-> Absent,
          status |-> Absent, responseData |-> Some(response.data)]
    ELSE [success |-> FALSE, teamId |-> Absent,
          error |-> Some(ErrorMessage(response.status, response.data)),
          status |-> Some(response.status), responseData |-> Some(response.data)]

\* what createTeam returns when axios throws with a response attached
TeamResultOfErrorResponse(response) ==
    [success |-> FALSE, teamId |-> Absent,
     error |-> Some(ErrorMessage(response.status, response.data)),
     status |-> Some(response.status), responseData |-> Some(response.data)]

\* what createTeam returns when axios throws without a response
TeamResultOfNoResponse ==
    [success |-> FALSE, teamId |-> Absent, error |-> Some(Message("error.message", 0)),
     status |-> Some(0), responseData |-> Absent]

InitTeam ==
    /\ call \in [fn : {"createTeam"}, kindeId : {1, 2}]
    /\ ret = [pc |-> "top", requests |-> 0, response |-> Absent, result |-> Pending]
    /\ body = "list"
    /\ customers = <<>>
    /\ plan = <<>>
    /\ processingMode = "both"
    /\ pc = "idle"
    /\ i = 0
    /\ results = <<>>
    /\ tasks = <<>>
    /\ successfulSubscriptions = <<>>
    /\ updatedResults = <<>>
    /\ ti = 0
    /\ running = {}
    /\ teamCalls = <<>>
    /\ log = <<>>

\* await axios.post(currentUrl, payload, ...)
CreateTeamPosts ==
    /\ call.fn = "createTeam" /\ ret.pc = "top"
    /\ ret' = [ret EXCEPT !.pc = "posted", !.requests = @ + 1]
    /\ UNCHANGED <<call, body, customers, plan, processingMode, pc, i, results, tasks,
                   successfulSubscriptions, updatedResults, ti, running, teamCalls, log>>

\* the post resolves (validateStatus accepts every status)
CreateTeamGetsResponse(response) ==
    /\ call.fn = "createTeam" /\ ret.pc = "posted"
    /\ ret' = [ret EXCEPT !.pc = "returned", !.response = Some(response),
                          !.result = TeamResultOfResponse(response)]
    /\ UNCHANGED <<call, body, customers, plan, processingMode, pc, i, results, tasks,
                   successfulSubscriptions, updatedResults, ti, running, teamCalls, log>>

\* the post rejects with error.response set
CreateTeamGetsErrorResponse(response) ==
    /\ call.fn = "createTeam" /\ ret.pc = "posted"
    /\ ~IsCreatedStatus(response.status)
    /\ ret' = [ret EXCEPT !.pc = "returned", !.response = Some(response),
                          !.result = TeamResultOfErrorResponse(response)]
    /\ UNCHANGED <<call, body, customers, plan, processingMode, pc, i, results, tasks,
                   successfulSubscriptions, updatedResults, ti, running, teamCalls, log>>

\* the post rejects without a response: network error, 30 s timeout
CreateTeamGetsNoResponse ==
    /\ call.fn = "createTeam" /\ ret.pc = "posted"
    /\ ret' = [ret EXCEPT !.pc = "returned", !.result = TeamResultOfNoResponse]
    /\ UNCHANGED <<call, body, customers, plan, processingMode, pc, i, results, tasks,
                   successfulSubscriptions, updatedResults, ti, running, teamCalls, log>>

NextTeam ==
    \/ CreateTeamPosts
    \/ \E response \in TeamResponses(call.kindeId) : CreateTeamGetsResponse(response)
    \/ \E response \in TeamResponses(call.kindeId) : CreateTeamGetsErrorResponse(response)
    \/ CreateTeamGetsNoResponse

SpecTeam == InitTeam /\ [][NextTeam]_vars

(* ------------- one record's processor, function by function ----------- *)
\* the variables of a run of POST, which a study of one function leaves alone
runVars == <<body, customers, plan, processingMode, pc, i, results, tasks,
             successfulSubscriptions, updatedResults, ti, running, teamCalls, log>>

\* no run of POST is under way
NoRun ==
    /\ body = "list"
    /\ customers = <<>>
    /\ plan = <<>>
    /\ processingMode = "both"
    /\ pc = "idle"
    /\ i = 0
    /\ results = <<>>
    /\ tasks = <<>>
    /\ successfulSubscriptions = <<>>
    /\ updatedResults = <<>>
    /\ ti = 0
    /\ running = {}
    /\ teamCalls = <<>>
    /\ log = <<>>

\* the pauses of the two processors before the subscription is created, and
\* the older processor's wait before the team is created
StripePauseMs == 300
CustomerPauseMs == 250
PropagationWaitMs == 500

\* the older processor: billing steps one after the other, then the team
processCustomer(customer, answers) ==
    IF ~answers.found THEN
        [BaseResult(customer) EXCEPT !.status = "customer_not_found",
                                     !.error = Some("Customer not found in Stripe")]
    ELSE IF ~answers.canceled THEN
        [BaseResult(customer) EXCEPT !.customerId = Some(CustomerIdOf(customer.email)),
                                     !.status = "cancel_failed",
                                     !.error = Some("Failed to cancel existing subscriptions")]
    ELSE IF ~answers.created THEN
        [BaseResult(customer) EXCEPT !.customerId = Some(CustomerIdOf(customer.email)),
                                     !.status = "subscription_failed",
                                     !.error = Some("Failed to create CAD subscription")]
    ELSE
        TeamPhaseResult(
            [BaseResult(customer) EXCEPT !.customerId = Some(CustomerIdOf(customer.email)),
                                         !.subscriptionId = Some(SubscriptionIdOf(CustomerIdOf(customer.email)))],
            createTeam(customer.kindeId, answers.team))

\* the value the processor under study resolves with
ProcessorResult ==
    IF call.fn = "processCustomerStripe"
    THEN processCustomerStripe(call.customer, call.answers)
    ELSE processCustomer(call.customer, call.answers)

RecordCalls ==
    [fn : {"processCustomerStripe", "processCustomer"},
     customer : {Customer(1, 1)},
     answers : [found : BOOLEAN, canceled : BOOLEAN, cleared : BOOLEAN, created : BOOLEAN,
                team : {201, 500}]]

\* the processor is suspended at pc; cancel and cleanup are the states of
\* the promises of cancelActiveSubscriptions and clearBillingObjects; trace
\* lists the calls made, the promises settled and the pauses, in order;
\* pauseMs and waitMs are the timers set
InitRecord ==
    /\ call \in RecordCalls
    /\ ret = [pc |-> "top", cancel |-> "idle", cleanup |-> "idle", trace |-> <<>>,
              pauseMs |-> 0, waitMs |-> 0, result |-> Absent]
    /\ NoRun

Resolved(r, value) == [r EXCEPT !.pc = "returned", !.result = Some(value)]

\* Promise.all([cancelActiveSubscriptions(id), clearBillingObjects(id)]):
\* both functions are called, one after the other with no await between
\* them, before the processor is suspended on the two promises
BothStarted(r) ==
    [r EXCEPT !.pc = "all", !.cancel = "running", !.cleanup = "running",
              !.trace = @ \o <<"cancel", "cleanup">>]

\* await findCustomerByEmail(email)
FindCustomer ==
    /\ call.fn \in {"processCustomerStripe", "processCustomer"} /\ ret.pc = "top"
    /\ ret' = [ret EXCEPT !.pc = "lookup", !.trace = Append(@, "lookup")]
    /\ UNCHANGED <<call, runVars>>

\* the lookup returns: null ends the record; processCustomerStripe reads the
\* currency from the customer and starts cancel and cleanup, processCustomer
\* asks for the currency first
FindCustomerReturns ==
    /\ ret.pc = "lookup"
    /\ ret' = IF ~call.answers.found THEN Resolved(ret, ProcessorResult)
              ELSE IF call.fn = "processCustomerStripe" THEN BothStarted(ret)
              ELSE [ret EXCEPT !.pc = "currency", !.trace = Append(@, "currency")]
    /\ UNCHANGED <<call, runVars>>

\* processCustomer: getCustomerCurrency returns, cancelActiveSubscriptions
\* is called and awaited
OldCurrencyReturns ==
    /\ call.fn = "processCustomer" /\ ret.pc = "currency"
    /\ ret' = [ret EXCEPT !.pc = "cancel", !.cancel = "running", !.trace = Append(@, "cancel")]
    /\ UNCHANGED <<call, runVars>>

\* the promise of cancelActiveSubscriptions settles; processCustomer, which
\* awaits it alone, returns cancel_failed or calls clearBillingObjects
CancelSettles ==
    /\ ret.cancel = "running"
    /\ ret' = IF ret.pc = "all"
              THEN [ret EXCEPT !.cancel = "settled", !.trace = Append(@, "canceled")]
              ELSE IF ~call.answers.canceled
              THEN Resolved([ret EXCEPT !.cancel = "settled", !.trace = Append(@, "canceled")],
                            ProcessorResult)
              ELSE [ret EXCEPT !.pc = "cleanup", !.cancel = "settled", !.cleanup = "running",
                               !.trace = @ \o <<"canceled", "cleanup">>]
    /\ UNCHANGED <<call, runVars>>

\* the promise of clearBillingObjects settles; processCustomer, which awaits
\* it alone, starts its 250 ms pause whatever the value
CleanupSettles ==
    /\ ret.cleanup = "running"
    /\ ret' = IF ret.pc = "all"
              THEN [ret EXCEPT !.cleanup = "settled", !.trace = Append(@, "cleared")]
              ELSE [ret EXCEPT !.pc = "pause", !.cleanup = "settled", !.pauseMs = CustomerPauseMs,
                               !.trace = @ \o <<"cleared", "pause">>]
    /\ UNCHANGED <<call, runVars>>

\* a processor that does not test the value of the cancel step
PromiseAllResolvesUntested ==
    /\ call.fn = "processCustomerStripe" /\ ret.pc = "all"
    /\ ret.cancel = "settled" /\ ret.cleanup = "settled"
    /\ ret' = [ret EXCEPT !.pc = "pause", !.pauseMs = StripePauseMs,
                          !.trace = Append(@, "pause")]
    /\ UNCHANGED <<call, runVars>>

\* processCustomerStripe: Promise.all resolves once both promises have
\* settled; the value of the cleanup is dropped, a false cancel returns
\* cancel_failed, otherwise the 300 ms pause starts
PromiseAllResolves ==
    /\ call.fn = "processCustomerStripe" /\ ret.pc = "all"
    /\ ret.cancel = "settled" /\ ret.cleanup = "settled"
    /\ ret' = IF ~call.answers.canceled THEN Resolved(ret, ProcessorResult)
              ELSE [ret EXCEPT !.pc = "pause", !.pauseMs = StripePauseMs,
                               !.trace = Append(@, "pause")]
    /\ UNCHANGED <<call, runVars>>

\* the pause ends and createCADSubscriptionWithCoupon is called
PauseEnds ==
    /\ ret.pc = "pause"
    /\ ret' = [ret EXCEPT !.pc = "create", !.trace = Append(@, "create")]
    /\ UNCHANGED <<call, runVars>>

\* the subscription call returns: null is subscription_failed,
\* processCustomerStripe returns success, processCustomer asks for the new
\* currency
CreateSubscriptionReturns ==
    /\ ret.pc = "create"
    /\ ret' = IF ~call.answers.created \/ call.fn = "processCustomerStripe"
              THEN Resolved(ret, ProcessorResult)
              ELSE [ret EXCEPT !.pc = "newCurrency", !.trace = Append(@, "currency")]
    /\ UNCHANGED <<call, runVars>>

\* processCustomer: the currency returns and the 500 ms wait starts
NewCurrencyReturns ==
    /\ call.fn = "processCustomer" /\ ret.pc = "newCurrency"
    /\ ret' = [ret EXCEPT !.pc = "propagation", !.waitMs = PropagationWaitMs,
                          !.trace = Append(@, "wait")]
    /\ UNCHANGED <<call, runVars>>

\* processCustomer: the wait ends and createTeam is called
PropagationWaitEnds ==
    /\ call.fn = "processCustomer" /\ ret.pc = "propagation"
    /\ ret' = [ret EXCEPT !.pc = "team", !.trace = Append(@, "team")]
    /\ UNCHANGED <<call, runVars>>

\* processCustomer: createTeam returns
CreateTeamReturns ==
    /\ call.fn = "processCustomer" /\ ret.pc = "team"
    /\ ret' = Resolved(ret, ProcessorResult)
    /\ UNCHANGED <<call, runVars>>

NextRecord ==
    \/ FindCustomer
    \/ FindCustomerReturns
    \/ OldCurrencyReturns
    \/ CancelSettles
    \/ CleanupSettles
    \/ PromiseAllResolves
    \/ PauseEnds
    \/ CreateSubscriptionReturns
    \/ NewCurrencyReturns
    \/ PropagationWaitEnds
    \/ CreateTeamReturns

SpecRecord == InitRecord /\ [][NextRecord]_vars

(* --------------------- cancelActiveSubscriptions ---------------------- *)
\* the states of a subscription at the billing provider
SubStates == {"active", "trialing", "past_due", "canceled"}

\* the states the function is meant to clear
Cancelable == {"active", "trialing", "past_due"}

\* the page size of a list request that passes no limit
DefaultLimit == 10

\* the customer's subscriptions, in the order the provider lists them: every
\* short list, and one list of active subscriptions that is longer than a page
SubsInputs ==
    UNION { [1..n -> SubStates] : n \in 0..MaxSubs }
    \cup { [n \in 1..(ListLimit + 1) |-> "active"] }

\* the first size elements of the set of places idx
FirstOf(idx, size) == {n \in idx : Cardinality({m \in idx : m < n}) < size}

\* what the list request of the function returns: the current version asks
\* for status 'active' with limit 10; the earlier one asks for status 'all'
\* with no limit, reads the one page it gets and keeps the cancelable ones
Listed(impl, subs) ==
    IF impl = "parallel"
    THEN FirstOf({n \in 1..Len(subs) : subs[n] = "active"}, ListLimit)
    ELSE {n \in FirstOf(1..Len(subs), DefaultLimit) : subs[n] \in Cancelable}

\* subs is the state of the customer's subscriptions at the provider, listed
\* the subscriptions the function will cancel, attempted those a cancel
\* request was sent for, inflight the requests not yet answered, failed the
\* requests that were rejected
InitCancel ==
    /\ call \in [fn : {"cancelActiveSubscriptions"}, impl : {"parallel", "sequential"},
                 subs : SubsInputs]
    /\ ret = [pc |-> "top", subs |-> call.subs, listed |-> {}, attempted |-> {},
              inflight |-> {}, failed |-> {}, result |-> Absent]
    /\ NoRun

\* the next subscription of the for loop of the earlier version
NextInLoop(r) == CHOOSE n \in r.listed \ r.attempted : \A m \in r.listed \ r.attempted : n <= m

\* await stripe.subscriptions.list(...)
ListSubscriptions ==
    /\ call.fn = "cancelActiveSubscriptions" /\ ret.pc = "top"
    /\ ret' = [ret EXCEPT !.pc = "listing"]
    /\ UNCHANGED <<call, runVars>>

\* the list request is rejected: the catch returns false
ListSubscriptionsFails ==
    /\ call.fn = "cancelActiveSubscriptions" /\ ret.pc = "listing"
    /\ ret' = [ret EXCEPT !.pc = "returned", !.result = Some(FALSE)]
    /\ UNCHANGED <<call, runVars>>

\* the list request returns: nothing to cancel returns true; the current
\* version sends every cancel request at once, the earlier one the first
ListSubscriptionsReturns ==
    /\ call.fn = "cancelActiveSubscriptions" /\ ret.pc = "listing"
    /\ LET found == Listed(call.impl, ret.subs)
           r == [ret EXCEPT !.listed = found] IN
          ret' = IF found = {} THEN [r EXCEPT !.pc = "returned", !.result = Some(TRUE)]
                 ELSE IF call.impl = "parallel"
                 THEN [r EXCEPT !.pc = "canceling", !.attempted = found, !.inflight = found]
                 ELSE [r EXCEPT !.pc = "canceling", !.attempted = {NextInLoop(r)},
                                !.inflight = {NextInLoop(r)}]
    /\ UNCHANGED <<call, runVars>>

\* a cancel request succeeds: the subscription is canceled at the provider;
\* the earlier version goes on with the next one or returns true
CancelSucceeds(n) ==
    /\ call.fn = "cancelActiveSubscriptions" /\ ret.pc = "canceling"
    /\ n \in ret.inflight
    /\ LET r == [ret EXCEPT !.subs[n] = "canceled", !.inflight = @ \ {n}] IN
          ret' = IF call.impl = "parallel" THEN r
                 ELSE IF r.listed \ r.attempted = {}
                 THEN [r EXCEPT !.pc = "returned", !.result = Some(TRUE)]
                 ELSE [r EXCEPT !.attempted = @ \cup {NextInLoop(r)},
                                !.inflight = {NextInLoop(r)}]
    /\ UNCHANGED <<call, runVars>>

\* a cancel request is rejected: the current version notes it (.catch) and
\* lets the others run; in the earlier one the rejection leaves the loop for
\* the catch, which returns false
CancelFails(n) ==
    /\ call.fn = "cancelActiveSubscriptions" /\ ret.pc = "canceling"
    /\ n \in ret.inflight
    /\ LET r == [ret EXCEPT !.inflight = @ \ {n}, !.failed = @ \cup {n}] IN
          ret' = IF call.impl = "parallel" THEN r
                 ELSE [r EXCEPT !.pc = "returned", !.result = Some(FALSE)]
    /\ UNCHANGED <<call, runVars>>

\* the current version: Promise.all(cancelPromises) resolves, the function
\* returns results.every(r => r)
CancelsAwaited ==
    /\ call.fn = "cancelActiveSubscriptions" /\ call.impl = "parallel"
    /\ ret.pc = "canceling" /\ ret.inflight = {}
    /\ ret' = [ret EXCEPT !.pc = "returned", !.result = Some(ret.failed = {})]
    /\ UNCHANGED <<call, runVars>>

NextCancel ==
    \/ ListSubscriptions
    \/ ListSubscriptionsFails
    \/ ListSubscriptionsReturns
    \/ \E n \in 1..(ListLimit + 1) : CancelSucceeds(n)
    \/ \E n \in 1..(ListLimit + 1) : CancelFails(n)
    \/ CancelsAwaited

SpecCancel == InitCancel /\ [][NextCancel]_vars

(* ------------------------ clearBillingObjects ------------------------- *)
\* the two kinds of object the function clears: open invoices are voided,
\* pending invoice items are deleted
Kinds == {"invoices", "items"}

\* the function is called for a customer with call.open[kind] objects of
\* each kind. list[kind] is the state of the list request of that kind;
\* attempted[kind] are the objects a void or delete request was sent for,
\* inflight[kind] the requests not yet answered, failed[kind] the rejected
\* ones
InitClear ==
    /\ call \in [fn : {"clearBillingObjects"}, impl : {"parallel", "sequential"},
                 open : [Kinds -> 0..MaxOpen]]
    /\ ret = [pc |-> "top", list |-> [k \in Kinds |-> "idle"],
              attempted |-> [k \in Kinds |-> {}], inflight |-> [k \in Kinds |-> {}],
              failed |-> [k \in Kinds |-> {}], result |-> Absent]
    /\ NoRun

\* the earlier version is done with a kind: the invoice items are listed
\* after the invoices, and after the items the function returns true
KindDone(r, kind) ==
    IF kind = "invoices" THEN [r EXCEPT !.list["items"] = "pending"]
    ELSE [r EXCEPT !.pc = "returned", !.result = Some(TRUE)]

\* the earlier version sends the request for object n of a kind, or is done
\* with the kind when there is no such object
SendOrDone(r, kind, n) ==
    IF n <= call.open[kind]
    THEN [r EXCEPT !.attempted[kind] = @ \cup {n}, !.inflight[kind] = {n}]
    ELSE KindDone(r, kind)

\* the current version starts both list requests at once (Promise.all), the
\* earlier one awaits the invoice list first
ClearLists ==
    /\ call.fn = "clearBillingObjects" /\ ret.pc = "top"
    /\ ret' = IF call.impl = "parallel"
              THEN [ret EXCEPT !.pc = "running", !.list = [k \in Kinds |-> "pending"]]
              ELSE [ret EXCEPT !.pc = "running", !.list["invoices"] = "pending"]
    /\ UNCHANGED <<call, runVars>>

\* a list request returns: the current version sends a request for every
\* object at once, the earlier one for the first
ClearListReturns(kind) ==
    /\ call.fn = "clearBillingObjects" /\ ret.list[kind] = "pending"
    /\ LET r == [ret EXCEPT !.list[kind] = "returned"] IN
          ret' = IF call.impl = "parallel"
                 THEN [r EXCEPT !.attempted[kind] = 1..call.open[kind],
                                !.inflight[kind] = 1..call.open[kind]]
                 ELSE SendOrDone(r, kind, 1)
    /\ UNCHANGED <<call, runVars>>

\* a list request is rejected: the catch of the function returns false. In
\* the current version Promise.all rejects at once and the other branch, if
\* it is still under way, runs on after the function has returned
ClearListFails(kind) ==
    /\ call.fn = "clearBillingObjects" /\ ret.list[kind] = "pending"
    /\ LET r == [ret EXCEPT !.list[kind] = "rejected"] IN
          ret' = IF ret.pc = "returned" THEN r
                 ELSE [r EXCEPT !.pc = "returned", !.result = Some(FALSE)]
    /\ UNCHANGED <<call, runVars>>

\* a loop with no try around the request: a rejected void or delete leaves
\* it for the catch of the function, which returns false
ClearObjectFailsAndStops(kind, n) ==
    /\ call.fn = "clearBillingObjects" /\ n \in ret.inflight[kind]
    /\ LET r == [ret EXCEPT !.inflight[kind] = @ \ {n}, !.failed[kind] = @ \cup {n}] IN
          ret' = IF call.impl = "parallel" THEN r
                 ELSE [r EXCEPT !.pc = "returned", !.result = Some(FALSE)]
    /\ UNCHANGED <<call, runVars>>

\* a void or delete request is rejected: its own catch notes it, and the
\* earlier version goes on with the next object
ClearObjectFails(kind, n) ==
    /\ call.fn = "clearBillingObjects" /\ n \in ret.inflight[kind]
    /\ LET r == [ret EXCEPT !.inflight[kind] = @ \ {n}, !.failed[kind] = @ \cup {n}] IN
          ret' = IF call.impl = "parallel" THEN r ELSE SendOrDone(r, kind, n + 1)
    /\ UNCHANGED <<call, runVars>>

\* a void or delete request succeeds
ClearObjectSucceeds(kind, n) ==
    /\ call.fn = "clearBillingObjects" /\ n \in ret.inflight[kind]
    /\ LET r == [ret EXCEPT !.inflight[kind] = @ \ {n}] IN
          ret' = IF call.impl = "parallel" THEN r ELSE SendOrDone(r, kind, n + 1)
    /\ UNCHANGED <<call, runVars>>

\* the current version: both branches have resolved, each with true, and
\* the function returns invoiceCleanup && invoiceItemCleanup
ClearResolves ==
    /\ call.fn = "clearBillingObjects" /\ call.impl = "parallel"
    /\ ret.pc = "running"
    /\ \A k \in Kinds : ret.list[k] = "returned" /\ ret.inflight[k] = {}
    /\ ret' = [ret EXCEPT !.pc = "returned", !.result = Some(TRUE)]
    /\ UNCHANGED <<call, runVars>>

NextClear ==
    \/ ClearLists
    \/ \E kind \in Kinds : ClearListReturns(kind)
    \/ \E kind \in Kinds : ClearListFails(kind)
    \/ \E kind \in Kinds, n \in 1..(MaxOpen + 1) : ClearObjectFails(kind, n)
    \/ \E kind \in Kinds, n \in 1..(MaxOpen + 1) : ClearObjectSucceeds(kind, n)
    \/ ClearResolves

SpecClear == InitClear /\ [][NextClear]_vars

(* ------------- the process-wide configuration, two requests ----------- *)
\* the value a configuration variable has from the environment or from its
\* initializer, before any request changed it
Initial == 0

\* the two requests under study; request r asks for the values r
RunIds == {1, 2}

\* PRICE_ID, COUPON_ID, SUBSCRIPTION_START_DATE, SUBSCRIPTION_CURRENCY
StripeConfig(c) == [priceId |-> c, couponId |-> c, startDate |-> c, currency |-> c]

\* currentRegion and teamConfig
RegionOf(c) == IF c = Initial THEN "ca" ELSE IF c = 1 THEN "us" ELSE "eu"
TeamOptions(c) == [region |-> RegionOf(c), teamConfig |-> c]

\* the config of a req: absent, or with a processingMode (which may be
\* missing), with or without region and teamConfig
NoConfig == [present |-> FALSE, mode |-> "absent", region |-> FALSE, teamConfig |-> FALSE]

Configs ==
    {NoConfig} \cup
    [present : {TRUE}, mode : Modes \cup {"absent"}, region : BOOLEAN, teamConfig : BOOLEAN]

\* the bodies of a request: customers a list, missing, or not a list
ConfigBodies == [customers : {"list", "undefined", "object"}, config : Configs]

\* the state of a run that has not arrived yet
NotArrived ==
    [pc |-> "idle", mode |-> "absent", before |-> Absent, after |-> Absent, sent |-> <<>>,
     status |-> 0, outcome |-> Absent]

\* stripe, region and teamConfig are the module-level variables of
\* stripe-utils and team-api; run[r] is request r: where it is, the
\* configuration it found and left, the remote requests it sent with the
\* values they carried, and its response
InitConfig ==
    /\ call \in [fn : {"POST"}, bodies : [RunIds -> ConfigBodies]]
    /\ ret = [stripe |-> StripeConfig(Initial), team |-> TeamOptions(Initial),
              run |-> [r \in RunIds |-> NotArrived]]
    /\ NoRun

\* a route that calls updateConfig for every config, whatever its mode
UpdatedConfigUnconditional(r, req, conf) ==
    [stripe |-> IF req.config.present THEN StripeConfig(r) ELSE conf.stripe,
     team |-> [region |-> IF req.config.present /\ req.config.region
                          THEN RegionOf(r) ELSE conf.team.region,
               teamConfig |-> IF req.config.present /\ req.config.teamConfig
                              THEN r ELSE conf.team.teamConfig]]

\* if (config) { setRegion; setTeamConfig; updateConfig when the mode is
\* stripe_only or both }
UpdatedConfig(r, req, conf) ==
    [stripe |-> IF req.config.present /\ req.config.mode \in {"stripe_only", "both"}
                THEN StripeConfig(r) ELSE conf.stripe,
     team |-> [region |-> IF req.config.present /\ req.config.region
                          THEN RegionOf(r) ELSE conf.team.region,
               teamConfig |-> IF req.config.present /\ req.config.teamConfig
                              THEN r ELSE conf.team.teamConfig]]

\* config?.processingMode || 'both'
ProcessingMode(req) ==
    IF req.config.present /\ req.config.mode # "absent" THEN req.config.mode ELSE "both"

\* a remote request and the configuration values it carries
Sent(kind, carried) == [kind |-> kind, carried |-> carried]

\* requests that carry the configuration their own run left in place
SentOwn(r, kind, carried) ==
    IF ret.run[r].after = Absent THEN Sent(kind, carried)
    ELSE Sent(kind, IF kind = "create" THEN ret.run[r].after[1].stripe
                    ELSE ret.run[r].after[1].team)

\* requests carry what the module-level variables hold when they are built
SentNow(r, kind, carried) == Sent(kind, carried)

\* the success value of processCustomerStripe: startDate is the literal
\* '2025-06-15' and coupon is process.env.STRIPE_COUPON_ID, the values the
\* variables start with
StripeOutcome ==
    [status |-> "success", subscriptionId |-> TRUE, teamId |-> FALSE,
     startDate |-> StripeConfig(Initial).startDate, coupon |-> StripeConfig(Initial).couponId]

\* the value of processCustomerTeamsOnly
TeamsOnlyOutcome(ok) ==
    [status |-> IF ok THEN "success" ELSE "team_creation_failed", subscriptionId |-> FALSE,
     teamId |-> ok, startDate |-> Absent, coupon |-> Absent]

\* request r arrives: the body is parsed, the configuration is updated, the
\* customers field is validated, and the first batch is dispatched, which
\* sends the lookup or (teams_only) the team request of the record
RunReceives(r) ==
    /\ call.fn = "POST" /\ ret.run[r].pc = "idle"
    /\ LET req == call.bodies[r]
           before == [stripe |-> ret.stripe, team |-> ret.team]
           conf == UpdatedConfig(r, req, before)
           arrived == [ret.run[r] EXCEPT !.before = Some(before), !.after = Some(conf),
                                         !.mode = ProcessingMode(req)]
       IN ret' = [ret EXCEPT
                    !.stripe = conf.stripe,
                    !.team = conf.team,
                    !.run[r] =
                        IF InvalidCustomers(req.customers)
                        THEN [arrived EXCEPT !.pc = "rejected", !.status = 400]
                        ELSE IF ProcessingMode(req) = "teams_only"
                        THEN [arrived EXCEPT !.pc = "team",
                                             !.sent = <<SentNow(r, "team", conf.team)>>]
                        ELSE [arrived EXCEPT !.pc = "lookup",
                                             !.sent = <<Sent("lookup", Absent)>>]]
    /\ UNCHANGED <<call, runVars>>

\* the lookup returns a customer; cancel and cleanup are started
RunLookupReturns(r) ==
    /\ call.fn = "POST" /\ ret.run[r].pc = "lookup"
    /\ ret' = [ret EXCEPT !.run[r].pc = "cleanup",
                          !.run[r].sent = Append(@, Sent("cleanup", Absent))]
    /\ UNCHANGED <<call, runVars>>

\* cancel and cleanup have returned and the pause has ended:
\* createCADSubscriptionWithCoupon builds its request from the variables
RunCreates(r) ==
    /\ call.fn = "POST" /\ ret.run[r].pc = "cleanup"
    /\ ret' = [ret EXCEPT !.run[r].pc = "create",
                          !.run[r].sent = Append(@, SentNow(r, "create", ret.stripe))]
    /\ UNCHANGED <<call, runVars>>

\* the subscription is created: a stripe_only run responds, a both run
\* starts the wait of processTeamCreation
RunCreateReturns(r) ==
    /\ call.fn = "POST" /\ ret.run[r].pc = "create"
    /\ ret' = [ret EXCEPT !.run[r].outcome = Some(StripeOutcome),
                          !.run[r].pc = IF ret.run[r].mode = "stripe_only" THEN "done" ELSE "sync",
                          !.run[r].status = IF ret.run[r].mode = "stripe_only" THEN 200 ELSE @]
    /\ UNCHANGED <<call, runVars>>

\* the 10 s wait ends: createTeam builds its request from the variables
RunSyncEnds(r) ==
    /\ call.fn = "POST" /\ ret.run[r].pc = "sync"
    /\ ret' = [ret EXCEPT !.run[r].pc = "team",
                          !.run[r].sent = Append(@, SentNow(r, "team", ret.team))]
    /\ UNCHANGED <<call, runVars>>

\* createTeam returns and the run responds
RunTeamReturns(r, ok) ==
    /\ call.fn = "POST" /\ ret.run[r].pc = "team"
    /\ ret' = [ret EXCEPT
                 !.run[r].pc = "done",
                 !.run[r].status = 200,
                 !.run[r].outcome =
                     IF ret.run[r].mode = "teams_only" THEN Some(TeamsOnlyOutcome(ok))
                     ELSE Some([ret.run[r].outcome[1] EXCEPT
                                   !.teamId = ok,
                                   !.status = IF ok THEN "success" ELSE "team_creation_failed"])]
    /\ UNCHANGED <<call, runVars>>

NextConfig ==
    \/ \E r \in RunIds : RunReceives(r)
    \/ \E r \in RunIds : RunLookupReturns(r)
    \/ \E r \in RunIds : RunCreates(r)
    \/ \E r \in RunIds : RunCreateReturns(r)
    \/ \E r \in RunIds : RunSyncEnds(r)
    \/ \E r \in RunIds, ok \in BOOLEAN : RunTeamReturns(r, ok)

SpecConfig == InitConfig /\ [][NextConfig]_vars

(* ------- processCustomerStripe over the requests of its lookup -------- *)
\* withRetry(operation, maxRetries = 3, baseDelay = 1000), as
\* findCustomerByEmail calls it
DefaultMaxRetries == 3

\* the searches followed: one record, stripe.customers.search({limit: 1})
LookupCalls == [fn : {"processCustomerStripe"}, customer : {Customer(1, 1), Customer(2, 2)}]

\* lookup is what findCustomerByEmail made of the search: "found" a
\* customer, "none" for an empty result, "error" for a caught exception
InitLookup ==
    /\ call \in LookupCalls
    /\ ret = [pc |-> "top", attempt |-> 1, trace |-> <<>>, lookup |-> "pending",
              canceled |-> Absent, cleared |-> Absent, result |-> Absent]
    /\ NoRun

\* the outcome of a record whose lookup, cancellation and creation ended so
LookupOutcome(found, canceled, created) ==
    processCustomerStripe(call.customer,
        [PlanOk EXCEPT !.found = found, !.canceled = canceled, !.created = created])

\* the catch block of processCustomerStripe
ProcessingFailed(error) ==
    [BaseResult(call.customer) EXCEPT !.status = "subscription_failed",
                                      !.error = Some("Processing failed: " \o error.message)]

\* withRetry: the loop test holds, stripe.customers.search is requested
SearchInvoke ==
    /\ call.fn = "processCustomerStripe" /\ ret.pc = "top"
    /\ ret.attempt <= DefaultMaxRetries
    /\ ret' = [ret EXCEPT !.pc = "called", !.trace = Append(@, Did("search", ret.attempt, Absent))]
    /\ UNCHANGED <<call, runVars>>

\* the search returns n customers: findCustomerByEmail returns the first
\* or null; on null the processor returns customer_not_found, otherwise it
\* starts cancelActiveSubscriptions and clearBillingObjects
SearchResolves(n) ==
    /\ call.fn = "processCustomerStripe" /\ ret.pc = "called"
    /\ IF n > 0
       THEN ret' = [ret EXCEPT !.pc = "cleanup", !.lookup = "found",
                               !.trace = @ \o <<Did("cancel", 0, Absent), Did("cleanup", 0, Absent)>>]
       ELSE ret' = [ret EXCEPT !.pc = "returned", !.lookup = "none",
                               !.result = Some(LookupOutcome(FALSE, TRUE, TRUE))]
    /\ UNCHANGED <<call, runVars>>

\* a search whose error is rethrown by findCustomerByEmail and caught by
\* the processor
SearchRejectsUncaught(error) ==
    /\ call.fn = "processCustomerStripe" /\ ret.pc = "called"
    /\ IF ShouldRetry(error, ret.attempt, DefaultMaxRetries)
       THEN ret' = [ret EXCEPT !.pc = "waiting",
                               !.trace = @ \o <<Did("error", ret.attempt, Some(error)),
                                                Did("wait", BackoffDelay(DefaultBaseDelay, ret.attempt), Absent)>>]
       ELSE ret' = [ret EXCEPT !.pc = "returned", !.lookup = "error",
                               !.trace = Append(@, Did("error", ret.attempt, Some(error))),
                               !.result = Some(ProcessingFailed(error))]
    /\ UNCHANGED <<call, runVars>>

\* the search rejects: withRetry waits and tries again, or rethrows; the
\* catch block of findCustomerByEmail returns null and the processor
\* returns customer_not_found
SearchRejects(error) ==
    /\ call.fn = "processCustomerStripe" /\ ret.pc = "called"
    /\ IF ShouldRetry(error, ret.attempt, DefaultMaxRetries)
       THEN ret' = [ret EXCEPT !.pc = "waiting",
                               !.trace = @ \o <<Did("error", ret.attempt, Some(error)),
                                                Did("wait", BackoffDelay(DefaultBaseDelay, ret.attempt), Absent)>>]
       ELSE ret' = [ret EXCEPT !.pc = "returned", !.lookup = "error",
                               !.trace = Append(@, Did("error", ret.attempt, Some(error))),
                               !.result = Some(LookupOutcome(FALSE, TRUE, TRUE))]
    /\ UNCHANGED <<call, runVars>>

\* the backoff timer fires: continue with attempt + 1
SearchWaitEnds ==
    /\ call.fn = "processCustomerStripe" /\ ret.pc = "waiting"
    /\ ret' = [ret EXCEPT !.pc = "top", !.attempt = @ + 1]
    /\ UNCHANGED <<call, runVars>>

\* cancelActiveSubscriptions resolves with ok
LookupCancelSettles(ok) ==
    /\ call.fn = "processCustomerStripe" /\ ret.pc = "cleanup"
    /\ ret.canceled = Absent
    /\ ret' = [ret EXCEPT !.canceled = Some(ok)]
    /\ UNCHANGED <<call, runVars>>

\* clearBillingObjects resolves with ok
LookupCleanupSettles(ok) ==
    /\ call.fn = "processCustomerStripe" /\ ret.pc = "cleanup"
    /\ ret.cleared = Absent
    /\ ret' = [ret EXCEPT !.cleared = Some(ok)]
    /\ UNCHANGED <<call, runVars>>

\* Promise.all resolves: cancel_failed, or the 300 ms pause
LookupPromiseAllResolves ==
    /\ call.fn = "processCustomerStripe" /\ ret.pc = "cleanup"
    /\ ret.canceled # Absent /\ ret.cleared # Absent
    /\ IF ret.canceled = Some(TRUE)
       THEN ret' = [ret EXCEPT !.pc = "pause", !.trace = Append(@, Did("wait", StripePauseMs, Absent))]
       ELSE ret' = [ret EXCEPT !.pc = "returned", !.result = Some(LookupOutcome(TRUE, FALSE, TRUE))]
    /\ UNCHANGED <<call, runVars>>

\* the pause ends: createCADSubscriptionWithCoupon is requested
LookupPauseEnds ==
    /\ call.fn = "processCustomerStripe" /\ ret.pc = "pause"
    /\ ret' = [ret EXCEPT !.pc = "create", !.trace = Append(@, Did("create", 0, Absent))]
    /\ UNCHANGED <<call, runVars>>

\* createCADSubscriptionWithCoupon returns a subscription or null
LookupCreateReturns(ok) ==
    /\ call.fn = "processCustomerStripe" /\ ret.pc = "create"
    /\ ret' = [ret EXCEPT !.pc = "returned", !.result = Some(LookupOutcome(TRUE, TRUE, ok))]
    /\ UNCHANGED <<call, runVars>>

NextLookup ==
    \/ SearchInvoke
    \/ \E n \in 0..1 : SearchResolves(n)
    \/ \E error \in OperationErrors : SearchRejects(error)
    \/ SearchWaitEnds
    \/ \E ok \in BOOLEAN : LookupCancelSettles(ok)
    \/ \E ok \in BOOLEAN : LookupCleanupSettles(ok)
    \/ LookupPromiseAllResolves
    \/ LookupPauseEnds
    \/ \E ok \in BOOLEAN : LookupCreateReturns(ok)

SpecLookup == InitLookup /\ [][NextLookup]_vars

(* ============================ properties ============================== *)
N == Len(customers)

CeilDiv(a, b) == (a + b - 1) \div b

DistinctIds == \A p, q \in 1..N : customers[p].kindeId = customers[q].kindeId => p = q

BillingFailures == {"customer_not_found", "cancel_failed", "subscription_failed"}

Statuses == {results[k].status : k \in 1..Len(results)}

EventsOf(phase) == SelectSeq(log, LAMBDA e : e.phase = phase)

DispatchesOf(phase) == SelectSeq(log, LAMBDA e : e.phase = phase /\ e.ev = "dispatch")

Dispatches == SelectSeq(log, LAMBDA e : e.ev = "dispatch")

DelaysOf(phase) == SelectSeq(log, LAMBDA e : e.phase = phase /\ e.ev = "delay")

\* C1: a valid request with distinct externalIds returns exactly one outcome
\* per input record: the list has N entries and every input kindeId occurs
\* in it exactly once, whatever mix of successes and failures occurred.
C1_OneOutcomePerRecord ==
    (pc = "done" /\ DistinctIds) =>
        /\ Len(results) = N
        /\ \A p \in 1..N :
              Cardinality({k \in 1..Len(results) : results[k].kindeId = customers[p].kindeId}) = 1
        /\ {results[k].kindeId : k \in 1..Len(results)} = {customers[p].kindeId : p \in 1..N}

C1_Witness ==
    /\ pc = "done" /\ DistinctIds /\ N >= 3
    /\ "success" \in Statuses
    /\ Statuses \cap BillingFailures # {}

\* C2 (as written): in every mode a returned team_creation_failed outcome
\* has customerId and subscriptionId set.
C2_TeamFailedHasBillingRefs ==
    pc = "done" =>
        \A k \in 1..Len(results) :
            results[k].status = "team_creation_failed" =>
                results[k].customerId # Absent /\ results[k].subscriptionId # Absent

\* C2 (amended): in stripe_only and both mode a returned
\* team_creation_failed outcome has customerId and subscriptionId set; in
\* teams_only mode such an outcome has neither.
C2_TeamFailedHasBillingRefsUnlessTeamsOnly ==
    pc = "done" =>
        \A k \in 1..Len(results) :
            results[k].status = "team_creation_failed" =>
                IF processingMode = "teams_only"
                THEN results[k].customerId = Absent /\ results[k].subscriptionId = Absent
                ELSE results[k].customerId # Absent /\ results[k].subscriptionId # Absent

C2_Witness ==
    /\ pc = "done" /\ processingMode = "both"
    /\ \E k \in 1..Len(results) :
          results[k].status = "team_creation_failed" /\ results[k].subscriptionId # Absent

\* C3: a returned outcome whose status is customer_not_found, cancel_failed
\* or subscription_failed has no teamId, in every mode and after any team
\* phase.
C3_BillingFailureHasNoTeamId ==
    pc = "done" =>
        \A k \in 1..Len(results) :
            results[k].status \in BillingFailures => results[k].teamId = Absent

C3_Witness ==
    /\ pc = "done" /\ processingMode = "both"
    /\ \E k \in 1..Len(results) : results[k].status \in BillingFailures
    /\ \E k \in 1..Len(results) : results[k].teamId # Absent

\* C4: no createTeam request was issued during the run for a record (an
\* input position) whose final status is customer_not_found, cancel_failed
\* or subscription_failed.
C4_NoTeamRequestForBillingFailure ==
    pc = "done" =>
        \A p \in 1..Len(results) :
            results[p].status \in BillingFailures => teamCalls[p] = 0

C4_Witness ==
    /\ pc = "done" /\ processingMode = "both"
    /\ \E p \in 1..Len(results) : results[p].status \in BillingFailures /\ teamCalls[p] = 0
    /\ \E p \in 1..N : teamCalls[p] > 0

\* C5: the returned list is order-preserving: outcome i carries the
\* kindeId, email and teamName of input record i, in all three modes.
C5_OrderPreserving ==
    pc = "done" =>
        /\ Len(results) = N
        /\ \A p \in 1..N :
              /\ results[p].kindeId = customers[p].kindeId
              /\ results[p].email = customers[p].email
              /\ results[p].teamName = customers[p].teamName

\* C6: the batch loop dispatches exactly ceil(N/B) batches, the k-th being
\* the input positions (k-1)*B+1 .. min(k*B, N) in order; none when N = 0.
C6_Batching ==
    pc = "done" =>
        LET d == DispatchesOf("main") IN
        /\ Len(d) = CeilDiv(N, batchSize)
        /\ \A k \in 1..Len(d) :
              d[k].recs = [j \in 1..(Min(k * batchSize, N) - (k - 1) * batchSize) |->
                              (k - 1) * batchSize + j]

C6_Witness ==
    /\ pc = "done"
    /\ processingMode # "teams_only"
    /\ Len(DispatchesOf("main")) = 2
    /\ Len(DispatchesOf("main")[1].recs) = StripeBatchSize
    /\ Len(DispatchesOf("main")[2].recs) = N - StripeBatchSize

\* C7: every record being processed belongs to the batch dispatched last,
\* so a batch starts only after the fan-in of the one before it, and at
\* most one batch size of records is in progress (billing batches,
\* teams-only batches and team-phase batches).
C7_OneBatchAtATime ==
    running # {} =>
        /\ Dispatches # <<>>
        /\ LET last == Dispatches[Len(Dispatches)] IN
              /\ running \subseteq {<<last.phase, last.recs[k]>> : k \in 1..Len(last.recs)}
              /\ Cardinality(running) <=
                    (IF last.phase = "team" THEN teamBatchSize ELSE batchSize)

C7_Witness ==
    /\ processingMode = "both"
    /\ Len(DispatchesOf("main")) >= 2
    /\ Len(DispatchesOf("team")) >= 2
    /\ Cardinality(running) = teamBatchSize

\* the number of records the team phase of a both run works on
BillingSuccesses ==
    IF processingMode = "both"
    THEN Cardinality({p \in 1..N : plan[p].found /\ plan[p].canceled /\ plan[p].created})
    ELSE 0

\* the events of nb batches separated by delays of ms
Pattern(nb, ms) ==
    LET P[k \in 0..nb] ==
            IF k = 0 THEN <<>>
            ELSE IF k = 1 THEN <<<<"dispatch", 0>>, <<"fanin", 0>>>>
            ELSE P[k - 1] \o <<<<"delay", ms>>, <<"dispatch", 0>>, <<"fanin", 0>>>>
    IN P[nb]

Shape(events) == [k \in 1..Len(events) |-> <<events[k].ev, events[k].ms>>]

\* the remote requests in flight, billing provider and team endpoint
TotalInFlight ==
    LET S[k \in 0..Len(tasks)] == IF k = 0 THEN 0 ELSE S[k - 1] + InFlight(tasks[k])
    IN S[Len(tasks)]

\* the batch size of the loop the handler is in
SizeInUse == IF pc \in {"sync", "tloop", "tawait", "tdelay"} THEN teamBatchSize ELSE batchSize

C9_InterBatchDelays ==
    pc = "done" =>
        /\ Shape(EventsOf("main")) =
              Pattern(CeilDiv(N, batchSize),
                      IF processingMode = "teams_only" THEN 2000 ELSE 1000)
        /\ Shape(EventsOf("team")) = Pattern(CeilDiv(BillingSuccesses, teamBatchSize), 2000)

C9_Witness ==
    /\ pc = "done"
    /\ processingMode = "stripe_only"
    /\ N = StripeBatchSize + 1
    /\ Len(DelaysOf("main")) = 1
    /\ log[3].ev = "delay" /\ log[3].ms = 1000

\* C10: in both mode a createTeam request is issued only when every billing
\* batch has completed: every input record has its billing outcome and no
\* billing processor is still running.
C10_TeamsAfterAllBilling ==
    (processingMode = "both" /\ \E p \in 1..N : teamCalls[p] > 0) =>
        /\ Len(results) = N
        /\ \A p \in 1..N : <<"main", p>> \notin running
        /\ Len(SelectSeq(log, LAMBDA e : e.phase = "main" /\ e.ev = "fanin")) =
              CeilDiv(N, StripeBatchSize)

C10_Witness ==
    /\ processingMode = "both"
    /\ pc = "tawait"
    /\ N > StripeBatchSize
    /\ \E p \in 1..N : teamCalls[p] > 0

\* the input positions whose billing phase ended with status success
BillingSucceeded == {p \in 1..N : plan[p].found /\ plan[p].canceled /\ plan[p].created}

\* C11: in a both run a createTeam request is only ever issued for a record
\* whose billing phase ended with success, and when the run has finished
\* exactly those records (input positions) have had one: a run with
\* successes at some positions and failures at others issues as many team
\* requests as there are successes.
C11_TeamRequestsExactlyForBillingSuccesses ==
    processingMode = "both" =>
        /\ \A p \in 1..N : teamCalls[p] > 0 => p \in BillingSucceeded
        /\ pc = "done" => \A p \in BillingSucceeded : teamCalls[p] = 1

C11_Witness ==
    /\ processingMode = "both" /\ pc = "done"
    /\ Cardinality(BillingSucceeded) = 2
    /\ N = 3
    /\ \E p \in 1..N : results[p].status = "cancel_failed" /\ teamCalls[p] = 0
    /\ \A p \in BillingSucceeded : teamCalls[p] = 1

\* the positions in the log of the wait for billing-provider sync
SyncWaits == {k \in 1..Len(log) : log[k].phase = "sync"}

\* C12: in a both run the 10 s sync wait happens if and only if at least
\* one record ended the billing phase with success; it happens once, after
\* the last billing batch has been gathered and before the first team
\* request, and with no success the run ends with the billing outcomes, no
\* wait and no team request.
C12_SyncDelayIffBillingSuccess ==
    processingMode = "both" =>
        /\ Cardinality(SyncWaits) <= 1
        /\ \A k \in SyncWaits :
              /\ log[k].ev = "delay" /\ log[k].ms = 10000
              /\ BillingSucceeded # {}
              /\ \A j \in 1..(k - 1) : log[j].phase = "main"
              /\ Len(SelectSeq(SubSeq(log, 1, k - 1), LAMBDA e : e.ev = "fanin")) =
                    CeilDiv(N, StripeBatchSize)
              /\ \A j \in (k + 1)..Len(log) : log[j].phase = "team"
              /\ k < Len(log) => log[k + 1].ev = "dispatch"
        /\ \A j \in 1..Len(log) : log[j].phase = "team" => SyncWaits # {}
        /\ (\E p \in 1..N : teamCalls[p] > 0) => SyncWaits # {}
        /\ pc = "done" =>
              /\ BillingSucceeded # {} <=> SyncWaits # {}
              /\ BillingSucceeded = {} =>
                    /\ \A p \in 1..N : teamCalls[p] = 0
                    /\ results = [p \in 1..N |-> processCustomerStripe(customers[p], plan[p])]

C12_Witness ==
    /\ processingMode = "both" /\ pc = "done"
    /\ N > StripeBatchSize
    /\ BillingSucceeded # {}
    /\ SyncWaits # {}
    /\ \E p \in 1..N : teamCalls[p] > 0

\* a both run in which no record succeeds at billing ends without the wait
C12_WitnessNoSuccess ==
    /\ processingMode = "both" /\ pc = "done"
    /\ N = 3 /\ BillingSucceeded = {} /\ SyncWaits = {}

\* the outcome the billing phase gave the record at input position p
BillingOutcome(p) == processCustomerStripe(customers[p], plan[p])

\* C13: when a both run has finished, every record (input position) whose
\* billing phase did not end with success is returned with its
\* billing-phase outcome unchanged.
C13_BillingFailureReturnedUnchanged ==
    (processingMode = "both" /\ pc = "done") =>
        \A p \in (1..N) \ BillingSucceeded : results[p] = BillingOutcome(p)

\* the same for the lists whose kindeIds are distinct
C13_BillingFailureReturnedUnchangedDistinct ==
    (processingMode = "both" /\ pc = "done" /\ DistinctIds) =>
        \A p \in (1..N) \ BillingSucceeded : results[p] = BillingOutcome(p)

\* the answer the team endpoint gives for the record at input position p
TeamAnswer(p) == createTeam(customers[p].kindeId, plan[p].team)

\* C14 as stated: when a both run over distinct kindeIds has finished, every
\* record that succeeded at billing is either success with the teamId of a
\* successful team request, or team_creation_failed carrying a team error
\* message, an HTTP status and a response body; it keeps its customerId and
\* subscriptionId and has had a team request.
C14_TeamOutcomeCarriesStatusAndBody ==
    (processingMode = "both" /\ pc = "done" /\ DistinctIds) =>
        \A p \in BillingSucceeded :
            /\ teamCalls[p] = 1
            /\ results[p].customerId = BillingOutcome(p).customerId
            /\ results[p].subscriptionId = BillingOutcome(p).subscriptionId
            /\ results[p].customerId # Absent /\ results[p].subscriptionId # Absent
            /\ \/ /\ results[p].status = "success"
                  /\ TeamAnswer(p).success
                  /\ results[p].teamId = TeamAnswer(p).teamId /\ results[p].teamId # Absent
               \/ /\ results[p].status = "team_creation_failed"
                  /\ ~TeamAnswer(p).success
                  /\ results[p].teamError # Absent
                  /\ \E st \in 100..599 : results[p].teamStatus = Some(st)
                  /\ results[p].teamResponseData # Absent

\* C14 amended: the failed record carries what createTeam returned: the
\* error message always, the HTTP status and the response body when the
\* team endpoint answered, and status 0 with no body when it did not.
C14_TeamOutcomeCarriesTeamResult ==
    (processingMode = "both" /\ pc = "done" /\ DistinctIds) =>
        \A p \in BillingSucceeded :
            /\ teamCalls[p] = 1
            /\ results[p].customerId = BillingOutcome(p).customerId
            /\ results[p].subscriptionId = BillingOutcome(p).subscriptionId
            /\ results[p].customerId # Absent /\ results[p].subscriptionId # Absent
            /\ \/ /\ results[p].status = "success"
                  /\ TeamAnswer(p).success
                  /\ results[p].teamId = TeamAnswer(p).teamId /\ results[p].teamId # Absent
               \/ /\ results[p].status = "team_creation_failed"
                  /\ ~TeamAnswer(p).success
                  /\ results[p].teamError = TeamAnswer(p).error /\ results[p].teamError # Absent
                  /\ results[p].error = results[p].teamError
                  /\ IF plan[p].team = NoResponse
                     THEN results[p].teamStatus = Some(0) /\ results[p].teamResponseData = Absent
                     ELSE /\ results[p].teamStatus = Some(plan[p].team)
                          /\ results[p].teamResponseData = Some(ResponseBody(plan[p].team))

C14_Witness ==
    /\ processingMode = "both" /\ pc = "done" /\ DistinctIds
    /\ N = 3 /\ BillingSucceeded = 1..N
    /\ \E p, q, r \in 1..N :
          /\ results[p].status = "success" /\ results[p].teamId # Absent
          /\ results[q].status = "team_creation_failed" /\ results[q].teamStatus = Some(500)
          /\ results[r].status = "team_creation_failed" /\ results[r].teamStatus = Some(0)

\* the team request for the record at input position p fails
TeamFails(p) == ~TeamAnswer(p).success

\* a step whose failure ends the processor of position p in the main loop:
\* the team request in teams_only mode, else lookup, cancel or creation
MainStepFailed(p) ==
    IF processingMode = "teams_only" THEN TeamFails(p)
    ELSE ~plan[p].found \/ ~plan[p].canceled \/ ~plan[p].created

\* the same with the cleanup step counted as well
MainStepFailedOrCleanup(p) ==
    IF processingMode = "teams_only" THEN TeamFails(p)
    ELSE MainStepFailed(p) \/ ~plan[p].cleared

\* the outcome has a failure status and carries a message
IsFailureOutcome(r) ==
    /\ r.status \in BillingFailures \cup {"team_creation_failed"}
    /\ r.error # Absent

\* the outcomes the processors of the batch in flight have resolved with
SettledTasks == {k \in 1..Len(tasks) : ~tasks[k].pending}

\* what every run keeps, whatever failed: the outcomes gathered by the main
\* loop are those of the records in input order, a finished run has one per
\* record, and every billing success has had its team request
RunNeverAborts ==
    /\ Len(results) <= N
    /\ pc \in {"sync", "tloop", "tawait", "tdelay", "done"} => Len(results) = N
    /\ pc = "await" => \A k \in 1..Len(tasks) : tasks[k].pos = Len(results) + k
    /\ (processingMode = "both" /\ pc = "done") => \A p \in BillingSucceeded : teamCalls[p] = 1

C15_WitnessCleanup ==
    /\ pc = "done"
    /\ \E p \in 1..N : ~plan[p].cleared /\ results[p].status = "success"
                       /\ results[p].subscriptionId # Absent

\* C16: a request whose customers field is missing or is not a list is
\* answered with status 400 and a single error object; no record of it is
\* processed and no billing or team request is issued for it. A request
\* whose customers field is a list is never answered that way.
C16_InvalidRequestRejected ==
    /\ ~IsArray(body) =>
          /\ pc \in {"start", "rejected"}
          /\ log = <<>> /\ running = {} /\ tasks = <<>> /\ results = <<>>
          /\ \A p \in DOMAIN teamCalls : teamCalls[p] = 0
          /\ pc = "rejected" =>
                Response = [status |-> 400, error |-> Some("Invalid customers data"),
                            results |-> Absent]
    /\ IsArray(body) => pc # "rejected"

\* a body whose customers field is an object, not an array, is rejected
C16_Witness ==
    /\ body = "object" /\ pc = "rejected" /\ Response.status = 400

\* a body without a customers field is rejected
C16_WitnessMissing ==
    /\ body = "undefined" /\ pc = "rejected" /\ Response.status = 400

\* what a call of withRetry or createTeamWithRetry has done so far
Trace == ret.trace
TraceOf(ev) == SelectSeq(Trace, LAMBDA d : d.ev = ev)
Invocations == Len(TraceOf("invoke"))
Waits == [k \in 1..Len(TraceOf("wait")) |-> TraceOf("wait")[k].n]
RateLimited == Len(SelectSeq(Trace, LAMBDA d : d.ev = "error" /\ d.err = Some(RateLimitError)))
Finished == ret.pc \in {"returned", "thrown"}

\* C17: withRetry invokes the operation at most maxRetries times; it waits
\* exactly after a rate-limit failure of attempt k < maxRetries, for
\* baseDelay * 2^(k-1) ms, and then makes attempt k + 1; an operation that is
\* rate-limited twice and then succeeds under (3, 1000) is invoked three
\* times, with waits of 1000 and 2000 ms, and its value is returned.
C17_BoundedAttemptsExponentialBackoff ==
    call.fn = "withRetry" =>
        /\ Invocations <= call.maxRetries
        /\ \A j \in 1..Len(Trace) :
              /\ Trace[j].ev = "invoke" =>
                    /\ Trace[j].n = Len(SelectSeq(SubSeq(Trace, 1, j), LAMBDA d : d.ev = "invoke"))
                    /\ j > 1 => Trace[j - 1].ev = "wait"
              /\ Trace[j].ev = "wait" =>
                    /\ j >= 3
                    /\ Trace[j - 2].ev = "invoke"
                    /\ Trace[j - 1].ev = "error" /\ Trace[j - 1].err = Some(RateLimitError)
                    /\ Trace[j - 1].n = Trace[j - 2].n /\ Trace[j - 1].n < call.maxRetries
                    /\ Trace[j].n = call.baseDelay * 2^(Trace[j - 1].n - 1)
                    /\ j < Len(Trace) => Trace[j + 1] = Did("invoke", Trace[j - 1].n + 1, Absent)
              /\ (Trace[j].ev = "error" /\ Trace[j].err = Some(RateLimitError)
                    /\ Trace[j].n < call.maxRetries) =>
                    j < Len(Trace) /\ Trace[j + 1].ev = "wait"
        /\ (call.maxRetries = 3 /\ call.baseDelay = 1000 /\ ret.pc = "returned" /\ RateLimited = 2) =>
              Invocations = 3 /\ Waits = <<1000, 2000>> /\ ret.result = Value

C17_Witness ==
    /\ call = [fn |-> "withRetry", maxRetries |-> 3, baseDelay |-> 1000]
    /\ ret.pc = "returned" /\ RateLimited = 2
    /\ Invocations = 3 /\ Waits = <<1000, 2000>>

\* C18: an attempt that fails with an error that is not a rate-limit error
\* ends the call: withRetry throws that same error, with no wait and no
\* further invocation after it, whatever the attempt number.
C18_OtherErrorsPropagateAtOnce ==
    call.fn = "withRetry" =>
        \A j \in 1..Len(Trace) :
            (Trace[j].ev = "error" /\ Trace[j].err # Some(RateLimitError)) =>
                /\ j = Len(Trace)
                /\ ret.pc = "thrown"
                /\ Some(ret.result.error[1]) = Trace[j].err

\* an untyped error at the second attempt of three is thrown at once
C18_Witness ==
    /\ call.fn = "withRetry" /\ call.maxRetries = 3
    /\ ret.pc = "thrown" /\ ret.result = Thrown(UntypedError)
    /\ Invocations = 2 /\ Len(Waits) = 1
    /\ Trace[Len(Trace)] = Did("error", 2, Some(UntypedError))

\* C19 as stated: when every attempt up to the cap has failed with a
\* rate-limit error, withRetry fails with the 'Max retries reached' error.
C19_FailsWithMaxRetriesReached ==
    (call.fn = "withRetry" /\ Finished /\ RateLimited = call.maxRetries) =>
        ret.result = Thrown(MaxRetriesError)

\* C19 amended: when every attempt up to the cap (maxRetries >= 1) has
\* failed with a rate-limit error, withRetry has invoked the operation
\* maxRetries times, waited maxRetries - 1 times, and fails with the
\* rate-limit error of the last attempt; the 'Max retries reached' error is
\* thrown only when maxRetries < 1, the operation never being invoked.
C19_FailsWithLastRateLimitError ==
    call.fn = "withRetry" =>
        /\ (Finished /\ call.maxRetries >= 1 /\ RateLimited = call.maxRetries) =>
              /\ ret.result = Thrown(RateLimitError)
              /\ Invocations = call.maxRetries
              /\ Len(Waits) = call.maxRetries - 1
        /\ ret.result = Thrown(MaxRetriesError) => call.maxRetries < 1 /\ Invocations = 0
        /\ RateLimited <= call.maxRetries

C19_Witness ==
    /\ call = [fn |-> "withRetry", maxRetries |-> 3, baseDelay |-> 1000]
    /\ ret.pc = "thrown" /\ RateLimited = 3
    /\ ret.result = Thrown(RateLimitError)
    /\ Waits = <<1000, 2000>>

\* with maxRetries = 0 the 'Max retries reached' error is thrown
C19_WitnessNoAttempt ==
    /\ call.fn = "withRetry" /\ call.maxRetries = 0
    /\ ret.pc = "thrown" /\ ret.result = Thrown(MaxRetriesError)

\* the team-creation requests a call of createTeamWithRetry has issued
Requests == Len(TraceOf("request"))

\* C20: createTeamWithRetry(kindeId, teamName, N), N >= 1, issues at most N
\* team-creation requests in total, whatever the team endpoint answers.
C20_AtMostNRequests ==
    (call.fn = "createTeamWithRetry" /\ call.maxRetries >= 1) => Requests <= call.maxRetries

\* what the code keeps: at most N + 1 requests, the last of them issued
\* after the loop when none of the N attempts ended the call
C20_AtMostNPlusOneRequests ==
    call.fn = "createTeamWithRetry" =>
        /\ Requests <= call.maxRetries + 1
        /\ Requests = call.maxRetries + 1 =>
              \A j \in 1..Len(Trace) :
                  (Trace[j].ev = "response" /\ j < Len(Trace)) => Trace[j].n \in {500, NoResponse}

\* the responses a call of createTeamWithRetry has received, in order
Responses == [k \in 1..Len(TraceOf("response")) |-> TraceOf("response")[k].n]

\* the outcome the team-phase mapper of the retrying route builds for a
\* record that succeeded at billing, from what createTeamWithRetry returned
RetryOutcome ==
    TeamPhaseResult(processCustomerStripe(Customer(call.kindeId, call.kindeId), PlanOk), ret.result)

C22_RegionIsOneOfFive ==
    call.fn = "setRegion" =>
        /\ ret.currentRegion \in RegionCodes
        /\ getCurrentRegionUrl \in RegionUrls

\* what the code keeps: a string that names no property of REGION_URLS
\* never becomes the current region
C22_UnknownNamesRejected ==
    call.fn = "setRegion" =>
        /\ ret.currentRegion \notin UnknownNames
        /\ ret.currentRegion \in {"ca"} \cup Range(ret.calls)
        /\ (Len(ret.calls) > 0 /\ InRegionUrls(ret.calls[Len(ret.calls)])) =>
              ret.currentRegion = ret.calls[Len(ret.calls)]

C23_WitnessCreated ==
    /\ call.fn = "createTeam" /\ ret.pc = "returned"
    /\ ret.response # Absent /\ ret.response[1].status = 299 /\ ret.result.success

\* the processors in flight whose customer search finds nothing
NotFoundTasks == {k \in 1..Len(tasks) : ~plan[tasks[k].pos].found}

\* C24: a record whose customer lookup finds nothing finishes with status
\* customer_not_found and no customer or subscription id, and its processor
\* is never at the cancel/cleanup step, the pause or the subscription
\* creation, so none of their requests is made for it; when the lookup
\* finds nothing for every record of a billing run, every outcome of the
\* run is customer_not_found, one batch after the other.
C24_NotFoundEndsRecord ==
    processingMode # "teams_only" =>
        /\ \A k \in NotFoundTasks :
              /\ tasks[k].step \in {"lookup", "done"}
              /\ InFlight(tasks[k]) = (IF tasks[k].step = "lookup" THEN 1 ELSE 0)
              /\ tasks[k].lists = 0 /\ tasks[k].calls = 0
              /\ ~tasks[k].pending =>
                    /\ tasks[k].value[1].status = "customer_not_found"
                    /\ tasks[k].value[1].customerId = Absent
                    /\ tasks[k].value[1].subscriptionId = Absent
        /\ \A k \in 1..Len(results) :
              ~plan[k].found => results[k].status = "customer_not_found"
        /\ (pc = "done" /\ \A p \in 1..N : ~plan[p].found) =>
              /\ Len(results) = N
              /\ \A k \in 1..N : results[k].status = "customer_not_found"
              /\ \A p \in 1..N : teamCalls[p] = 0

\* a finished run of two records, neither of which was found
C24_Witness ==
    /\ processingMode # "teams_only" /\ pc = "done" /\ N = 2
    /\ \A p \in 1..N : ~plan[p].found
    /\ \A k \in 1..N : results[k].status = "customer_not_found"

\* a processor that has just resolved with customer_not_found while the
\* other record of its batch is at its cancel/cleanup step
C24_WitnessInFlight ==
    /\ pc = "await"
    /\ \E k \in NotFoundTasks : ~tasks[k].pending
    /\ \E k \in 1..Len(tasks) : tasks[k].step = "cleanup"

\* the places of a step in the trace of the processor under study
StepsOf(ev) == {n \in 1..Len(ret.trace) : ret.trace[n] = ev}

\* step a is in the trace, and before every step b
Precedes(a, b) == StepsOf(a) # {} /\ \A m \in StepsOf(a), n \in StepsOf(b) : m < n

\* C25: when the customer is found and the cancel step returns false, the
\* record finishes with status cancel_failed, its customerId set and no
\* subscriptionId, and the processor never reaches its pause or the
\* subscription-creation call (nor anything after it).
C25_CancelFailedSkipsCreation ==
    (call.fn \in {"processCustomerStripe", "processCustomer"}
        /\ call.answers.found /\ ~call.answers.canceled) =>
        /\ StepsOf("create") = {} /\ StepsOf("pause") = {} /\ StepsOf("team") = {}
        /\ ret.pc \in {"top", "lookup", "currency", "cancel", "all", "returned"}
        /\ ret.pc = "returned" =>
              /\ ret.cancel = "settled"
              /\ ret.result # Absent
              /\ ret.result[1].status = "cancel_failed"
              /\ ret.result[1].customerId = Some(CustomerIdOf(call.customer.email))
              /\ ret.result[1].subscriptionId = Absent
              /\ ret.result[1].error # Absent

\* processCustomerStripe has returned after a cancel step that returned
\* false, the subscription call would have succeeded
C25_Witness ==
    /\ call.fn = "processCustomerStripe"
    /\ call.answers.found /\ ~call.answers.canceled /\ call.answers.created
    /\ ret.pc = "returned" /\ ret.cleanup = "settled"
    /\ ret.result[1].status = "cancel_failed"

\* what both processors keep: the subscription-creation call is made only
\* after the cancel and the cleanup have both completed and the pause that
\* follows them has elapsed
CreateAfterBothAndPause ==
    StepsOf("create") # {} =>
        /\ ret.cancel = "settled" /\ ret.cleanup = "settled"
        /\ call.answers.canceled
        /\ Precedes("canceled", "pause") /\ Precedes("cleared", "pause")
        /\ Precedes("pause", "create")
        /\ Cardinality(StepsOf("create")) = 1
        /\ ret.pauseMs = (IF call.fn = "processCustomerStripe" THEN StripePauseMs
                          ELSE CustomerPauseMs)

\* C26 as stated: for a record with a found customer, cancel and cleanup
\* are both started before either is awaited, and the subscription is
\* requested only after both completed and the pause elapsed.
C26_BothStartedBeforeEitherAwaited ==
    (call.fn \in {"processCustomerStripe", "processCustomer"} /\ call.answers.found) =>
        /\ ret.cancel # "idle" => ret.cleanup # "idle"
        /\ CreateAfterBothAndPause

\* per processor: processCustomerStripe calls cancel and cleanup one
\* right after the other, before it awaits either, and they settle in either
\* order; the older processCustomer awaits the cancel first and calls the
\* cleanup only after it returned true; in both, the subscription is
\* requested only after both completed and the pause (300 ms, 250 ms) that
\* follows has elapsed.
C26_ConcurrentInStripeProcessor ==
    (call.fn \in {"processCustomerStripe", "processCustomer"} /\ call.answers.found) =>
        /\ call.fn = "processCustomerStripe" =>
              /\ ret.cancel = "idle" <=> ret.cleanup = "idle"
              /\ ret.cancel # "idle" =>
                    /\ StepsOf("cancel") = {2} /\ StepsOf("cleanup") = {3}
                    /\ \A n \in StepsOf("canceled") \cup StepsOf("cleared") : n > 3
        /\ call.fn = "processCustomer" =>
              /\ ret.cleanup # "idle" => ret.cancel = "settled" /\ call.answers.canceled
              /\ StepsOf("cleanup") # {} => Precedes("canceled", "cleanup")
        /\ CreateAfterBothAndPause

\* processCustomerStripe is creating the subscription, and the cleanup
\* completed before the cancel did
C26_Witness ==
    /\ call.fn = "processCustomerStripe" /\ call.answers.found
    /\ ret.pc = "create"
    /\ Precedes("cleared", "canceled")

\* the other order, and the older processor creating the subscription
C26_WitnessCancelFirst ==
    /\ call.fn = "processCustomerStripe" /\ call.answers.found
    /\ ret.pc = "create"
    /\ Precedes("canceled", "cleared")

C26_WitnessSequential ==
    /\ call.fn = "processCustomer" /\ call.answers.found
    /\ ret.pc = "create"

\* the subscriptions of the customer that are still active, trialing or
\* past_due at the provider
LeftCancelable == {n \in 1..Len(ret.subs) : ret.subs[n] \in Cancelable}

\* C27: cancelActiveSubscriptions returns true if and only if, after it
\* finished, the customer has no subscription left in the states active,
\* trialing or past_due, counting all of the customer's subscriptions and
\* not only a first page.
C27_TrueIffNoneLeft ==
    (call.fn = "cancelActiveSubscriptions" /\ ret.pc = "returned") =>
        (ret.result = Some(TRUE) <=> LeftCancelable = {})

\* what the value does say, in both versions: true means that every
\* subscription the function listed has been canceled, false that the list
\* request or a cancel request was rejected
C27_TrueIffListedCanceled ==
    (call.fn = "cancelActiveSubscriptions" /\ ret.pc = "returned") =>
        /\ ret.result \in {Some(TRUE), Some(FALSE)}
        /\ ret.result = Some(TRUE) =>
              /\ ret.failed = {} /\ ret.inflight = {}
              /\ \A n \in ret.listed : ret.subs[n] = "canceled"
        /\ (ret.result = Some(FALSE) /\ ret.listed # {}) => ret.failed # {}

\* the current version returns true and leaves a trialing subscription
C27_ReachedTrialingLeft ==
    /\ call.fn = "cancelActiveSubscriptions" /\ call.impl = "parallel"
    /\ ret.pc = "returned" /\ ret.result = Some(TRUE)
    /\ \E n \in LeftCancelable : ret.subs[n] = "trialing"

\* either version returns true and leaves the subscription after the page
PageLeft(impl) ==
    /\ call.fn = "cancelActiveSubscriptions" /\ call.impl = impl
    /\ Len(call.subs) > ListLimit
    /\ ret.pc = "returned" /\ ret.result = Some(TRUE)
    /\ LeftCancelable = {ListLimit + 1}

C27_ReachedPageLeftParallel == PageLeft("parallel")

C27_ReachedPageLeftSequential == PageLeft("sequential")

\* C28: a cancel request is attempted for every subscription that was
\* listed, even when the cancel request of another one fails, and the
\* function returns a value, it does not throw.
C28_EveryListedAttempted ==
    (call.fn = "cancelActiveSubscriptions" /\ ret.pc = "returned") =>
        /\ ret.attempted = ret.listed
        /\ ret.result \in {Some(TRUE), Some(FALSE)}

\* the current version does so: every cancel request is sent before any is
\* answered, a rejected one is turned into false, and the function returns
\* once all are answered
C28_ParallelAttemptsAll ==
    (call.fn = "cancelActiveSubscriptions" /\ call.impl = "parallel") =>
        /\ ret.pc \in {"canceling", "returned"} => ret.attempted = ret.listed
        /\ ret.pc = "returned" => ret.inflight = {} /\ ret.result \in {Some(TRUE), Some(FALSE)}
        /\ ret.pc = "canceling" => ret.result = Absent

\* the current version has returned false: one cancel request was rejected
\* and the other subscription has been canceled all the same
C28_ReachedParallel ==
    /\ call.fn = "cancelActiveSubscriptions" /\ call.impl = "parallel"
    /\ ret.pc = "returned" /\ ret.result = Some(FALSE)
    /\ ret.failed = {1} /\ ret.attempted = {1, 2} /\ ret.subs[2] = "canceled"

\* the earlier version has returned false after the first cancel request
\* was rejected, and the second subscription was never tried
C28_ReachedSequentialStops ==
    /\ call.fn = "cancelActiveSubscriptions" /\ call.impl = "sequential"
    /\ ret.pc = "returned" /\ ret.result = Some(FALSE)
    /\ ret.listed = {1, 2} /\ ret.attempted = {1} /\ ret.subs[2] \in Cancelable

\* clearBillingObjects has returned and has no request under way
ClearQuiet ==
    /\ ret.pc = "returned"
    /\ \A k \in Kinds : ret.list[k] # "pending" /\ ret.inflight[k] = {}

\* the outcome of a record does not depend on the value of the cleanup
OutcomeIgnoresCleanup ==
    \A c \in RecordCalls :
        LET cleared == [c.answers EXCEPT !.cleared = TRUE]
            uncleared == [c.answers EXCEPT !.cleared = FALSE]
        IN  IF c.fn = "processCustomerStripe"
            THEN processCustomerStripe(c.customer, cleared) = processCustomerStripe(c.customer, uncleared)
            ELSE processCustomer(c.customer, cleared) = processCustomer(c.customer, uncleared)

\* C29: clearBillingObjects is best-effort. A rejected void or delete does
\* not stop the others: once the function is through, a request has been
\* sent for every object of every list that was returned, however many were
\* rejected. It does not throw: it returns true when both list requests
\* returned and false when one was rejected, whatever the voids and deletes
\* did. And the outcome of a record is the same whether the cleanup
\* returned true or false.
C29_CleanupBestEffort ==
    call.fn = "clearBillingObjects" =>
        /\ \A k \in Kinds :
              /\ ret.failed[k] \subseteq ret.attempted[k]
              /\ ret.attempted[k] \subseteq 1..call.open[k]
              /\ (ClearQuiet /\ ret.list[k] = "returned") => ret.attempted[k] = 1..call.open[k]
        /\ ret.pc = "returned" =>
              /\ ret.result \in {Some(TRUE), Some(FALSE)}
              /\ ret.result = Some(TRUE) <=> \A k \in Kinds : ret.list[k] = "returned"
        /\ ret.pc # "returned" => ret.result = Absent
        /\ OutcomeIgnoresCleanup

\* the earlier version has returned true: the first void was rejected, the
\* second invoice was voided all the same and the items were deleted
C29_Witness ==
    /\ call.fn = "clearBillingObjects" /\ call.impl = "sequential"
    /\ call.open = [k \in Kinds |-> 2]
    /\ ClearQuiet /\ ret.result = Some(TRUE)
    /\ ret.failed = [k \in Kinds |-> IF k = "invoices" THEN {1} ELSE {}]
    /\ \A k \in Kinds : ret.attempted[k] = {1, 2}

\* the current version has returned true although a void and a delete were
\* rejected
C29_WitnessParallel ==
    /\ call.fn = "clearBillingObjects" /\ call.impl = "parallel"
    /\ call.open = [k \in Kinds |-> 2]
    /\ ClearQuiet /\ ret.result = Some(TRUE)
    /\ \A k \in Kinds : ret.failed[k] = {1} /\ ret.attempted[k] = {1, 2}

\* the current version returned false when the invoice list was rejected,
\* and the invoice items were deleted after that
C29_WitnessRunsOn ==
    /\ call.fn = "clearBillingObjects" /\ call.impl = "parallel"
    /\ ret.pc = "returned" /\ ret.result = Some(FALSE)
    /\ ret.list["invoices"] = "rejected" /\ ret.inflight["items"] # {}

\* C30: in a stripe_only run no team request is ever issued and the team
\* phase is never entered; a record whose subscription is created has the
\* outcome success as soon as its processor resolves, and that is the
\* outcome returned; no outcome has a teamId or the status
\* team_creation_failed.
C30_BillingOnlyHasNoTeamStep ==
    processingMode = "stripe_only" =>
        /\ \A p \in 1..Len(teamCalls) : teamCalls[p] = 0
        /\ pc \in {"loop", "await", "delay", "done"}
        /\ \A k \in 1..Len(log) : log[k].phase # "team"
        /\ successfulSubscriptions = <<>> /\ updatedResults = <<>>
        /\ \A k \in SettledTasks :
              /\ tasks[k].value[1].teamId = Absent
              /\ tasks[k].value[1].status \in BillingFailures \cup {"success"}
              /\ tasks[k].value[1].status = "success" <=> tasks[k].pos \in BillingSucceeded
        /\ \A k \in 1..Len(results) :
              /\ results[k].teamId = Absent
              /\ results[k].teamError = Absent /\ results[k].teamStatus = Absent
              /\ results[k].status \in BillingFailures \cup {"success"}
              /\ results[k].status = "success" <=> k \in BillingSucceeded
              /\ results[k].status = "success" =>
                    results[k].subscriptionId = Some(SubscriptionIdOf(CustomerIdOf(customers[k].email)))

\* a finished stripe_only run of more than one batch in which every record
\* succeeded
C30_Witness ==
    /\ processingMode = "stripe_only" /\ pc = "done"
    /\ N > StripeBatchSize
    /\ Len(results) = N
    /\ \A k \in 1..N : results[k].status = "success" /\ results[k].teamId = Absent
    /\ Len(DispatchesOf("main")) = 2 /\ Len(DelaysOf("main")) = 1

\* a stripe_only run with a success and a failure
C30_WitnessMixed ==
    /\ processingMode = "stripe_only" /\ pc = "done"
    /\ "success" \in Statuses /\ Statuses \cap BillingFailures # {}

\* the k-th of the batches of size b over a list of len elements, as places
\* in that list
BatchPlaces(k, b, len) == [j \in 1..(Min(k * b, len) - (k - 1) * b) |-> (k - 1) * b + j]

\* the input positions whose billing phase succeeded, in input order
SuccessesInOrder == SelectSeq([p \in 1..N |-> p], LAMBDA p : p \in BillingSucceeded)

\* C31: the batches of the main loop have 3 records in a teams_only run and
\* 8 in a stripe_only or both run (the last one what is left), and the team
\* phase of a both run works in batches of 3 over the records whose billing
\* phase succeeded, taken in input order.
C31_BatchSizeByMode ==
    LET b == IF processingMode = "teams_only" THEN 3 ELSE 8
        main == DispatchesOf("main")
        team == DispatchesOf("team")
        succ == SuccessesInOrder
    IN  /\ \A k \in 1..Len(main) : main[k].recs = BatchPlaces(k, b, N)
        /\ \A k \in 1..Len(team) :
              LET places == BatchPlaces(k, 3, Len(succ)) IN
              /\ processingMode = "both"
              /\ Len(team[k].recs) <= 3
              /\ team[k].recs = [j \in 1..Len(places) |-> succ[places[j]]]
        /\ pc = "done" =>
              /\ Len(main) = CeilDiv(N, b)
              /\ processingMode = "both" => Len(team) = CeilDiv(Len(succ), 3)

\* a finished both run: billing batches of 8 and 1, team batches of 3, 3
\* and 2 over the eight successes, the failed record not among them
C31_Witness ==
    /\ processingMode = "both" /\ pc = "done" /\ N = 9
    /\ Len(SuccessesInOrder) = 8 /\ 2 \notin BillingSucceeded
    /\ Len(DispatchesOf("main")) = 2
    /\ Len(DispatchesOf("team")) = 3
    /\ DispatchesOf("team")[1].recs = <<1, 3, 4>>
    /\ Len(DispatchesOf("team")[3].recs) = 2

\* a finished teams_only run of three batches of 3
C31_WitnessTeamsOnly ==
    /\ processingMode = "teams_only" /\ pc = "done" /\ N = 9
    /\ Len(DispatchesOf("main")) = 3
    /\ \A k \in 1..3 : Len(DispatchesOf("main")[k].recs) = 3

\* the requests of a kind that run r has sent
SentOf(r, kind) == {n \in 1..Len(ret.run[r].sent) : ret.run[r].sent[n].kind = kind}

\* the other request
Other(r) == CHOOSE q \in RunIds : q # r

\* C32: the configuration is process-wide. A subscription or team request
\* carries what the variables hold at the moment it is built, whichever
\* request set them last, not what its own run set: C32_Witness is the
\* state in which a request of the first run carries the second request's
\* values.
C32_RequestsCarryCurrentVariables ==
    [][\A r \in RunIds :
          (call.fn = "POST" /\ Len(ret'.run[r].sent) > Len(ret.run[r].sent)) =>
              LET m == ret'.run[r].sent[Len(ret'.run[r].sent)] IN
              /\ m.kind = "create" => m.carried = ret.stripe
              /\ m.kind = "team" =>
                    m.carried = (IF ret.run[r].pc = "idle" THEN ret'.team ELSE ret.team)]_vars

\* request 1 arrived first and set its prices; request 2 arrived while run 1
\* was in flight; the subscription request of run 1 carries the price,
\* coupon, start date and currency of request 2
C32_Witness ==
    /\ call.fn = "POST"
    /\ ret.run[1].after = Some([stripe |-> StripeConfig(1), team |-> TeamOptions(1)])
    /\ ret.run[2].before = ret.run[1].after
    /\ \E n \in SentOf(1, "create") : ret.run[1].sent[n].carried = StripeConfig(2)

\* the same for the team request of run 1: region and team options of
\* request 2
C32_WitnessTeam ==
    /\ call.fn = "POST"
    /\ ret.run[1].after = Some([stripe |-> StripeConfig(1), team |-> TeamOptions(1)])
    /\ ret.run[2].before = ret.run[1].after
    /\ \E n \in SentOf(1, "team") : ret.run[1].sent[n].carried = TeamOptions(2)

\* C34: a request rejected with status 400 leaves the process-wide
\* configuration exactly as it found it.
C34_RejectedRequestLeavesConfig ==
    call.fn = "POST" =>
        \A r \in RunIds :
            (ret.run[r].pc = "rejected" /\ ret.run[r].status = 400) =>
                ret.run[r].after = ret.run[r].before

\* what a rejected request does keep: it sends no remote request and has no
\* outcome
C34_RejectedRequestSendsNothing ==
    call.fn = "POST" =>
        \A r \in RunIds :
            ret.run[r].pc = "rejected" =>
                /\ ret.run[r].status = 400
                /\ ret.run[r].sent = <<>> /\ ret.run[r].outcome = Absent
                /\ InvalidCustomers(call.bodies[r].customers)

\* request 1 was rejected and has changed prices, region and team options
C34_ReachedChanged ==
    /\ call.fn = "POST"
    /\ ret.run[1].pc = "rejected" /\ ret.run[2].pc = "idle"
    /\ ret.run[1].before = Some([stripe |-> StripeConfig(Initial), team |-> TeamOptions(Initial)])
    /\ ret.stripe = StripeConfig(1) /\ ret.team = TeamOptions(1)

\* C36: an outcome with a subscriptionId reports the start date and the
\* coupon that were sent in the subscription request of its record.
C36_OutcomeReportsWhatWasSent ==
    call.fn = "POST" =>
        \A r \in RunIds :
            (ret.run[r].outcome # Absent /\ ret.run[r].outcome[1].subscriptionId) =>
                \A n \in SentOf(r, "create") :
                    /\ ret.run[r].outcome[1].startDate = ret.run[r].sent[n].carried.startDate
                    /\ ret.run[r].outcome[1].coupon = ret.run[r].sent[n].carried.couponId

\* a single stripe_only request whose config was sent with the request and
\* whose outcome reports the initial start date and coupon
C36_ReachedSingleRun ==
    /\ call.fn = "POST"
    /\ ret.run[2].pc = "idle" /\ ret.run[1].pc = "done" /\ ret.run[1].mode = "stripe_only"
    /\ \E n \in SentOf(1, "create") : ret.run[1].sent[n].carried = StripeConfig(1)
    /\ ret.run[1].outcome[1].startDate = Initial /\ ret.run[1].outcome[1].coupon = Initial

\* C39: a teams_only run sends no request to the billing provider, leaves
\* price, coupon, start date and currency as it found them, and its outcome
\* is success with a teamId or team_creation_failed without one.
C39_TeamsOnlyLeavesBillingAlone ==
    call.fn = "POST" =>
        \A r \in RunIds :
            (ret.run[r].pc \notin {"idle", "rejected"} /\ ret.run[r].mode = "teams_only") =>
                /\ \A n \in 1..Len(ret.run[r].sent) : ret.run[r].sent[n].kind = "team"
                /\ Len(ret.run[r].sent) = 1
                /\ ret.run[r].after[1].stripe = ret.run[r].before[1].stripe
                /\ ret.run[Other(r)].pc = "idle" => ret.stripe = ret.run[r].before[1].stripe
                /\ ret.run[r].pc = "done" =>
                      /\ ret.run[r].outcome # Absent
                      /\ ~ret.run[r].outcome[1].subscriptionId
                      /\ \/ ret.run[r].outcome[1].status = "success"
                            /\ ret.run[r].outcome[1].teamId
                         \/ ret.run[r].outcome[1].status = "team_creation_failed"
                            /\ ~ret.run[r].outcome[1].teamId

\* a teams_only run that arrived after a both run had set its prices, and
\* changed region and team options only
C39_Witness ==
    /\ call.fn = "POST"
    /\ ret.run[2].mode = "teams_only" /\ ret.run[2].pc = "done"
    /\ ret.run[2].before = Some([stripe |-> StripeConfig(1), team |-> TeamOptions(1)])
    /\ ret.run[2].after = Some([stripe |-> StripeConfig(1), team |-> TeamOptions(2)])
    /\ ret.run[2].outcome[1].status = "success"

\* what the team phase makes of the record at input position p
TeamPhaseOutcome(p) == TeamPhaseResult(BillingOutcome(p), TeamAnswer(p))

\* C35: when a both run has finished, whether or not two records share a
\* kindeId, the team-phase result of every record that succeeded at billing
\* stands at that record's own position of the list, and every other
\* position holds its own billing-phase outcome.
C35_TeamResultAtOwnPosition ==
    (processingMode = "both" /\ pc = "done") =>
        \A p \in 1..N :
            results[p] = IF p \in BillingSucceeded THEN TeamPhaseOutcome(p)
                         ELSE BillingOutcome(p)

\* the same for the lists whose kindeIds are distinct
C35_TeamResultAtOwnPositionDistinct ==
    (processingMode = "both" /\ pc = "done" /\ DistinctIds) =>
        \A p \in 1..N :
            results[p] = IF p \in BillingSucceeded THEN TeamPhaseOutcome(p)
                         ELSE BillingOutcome(p)

\* a finished both run over a list with a repeated kindeId: the later of the
\* two records succeeded at billing and its team result stands at the
\* position of the earlier one, its own position keeps the billing outcome
C35_ReachedMisplaced ==
    /\ processingMode = "both" /\ pc = "done"
    /\ \E p, q \in 1..N :
        /\ p < q /\ customers[p].kindeId = customers[q].kindeId
        /\ q \in BillingSucceeded
        /\ results[p] = TeamPhaseOutcome(q)
        /\ results[q] = BillingOutcome(q)

\* a finished both run over distinct kindeIds with a team result in place
C35_ReachedDistinct ==
    /\ processingMode = "both" /\ pc = "done" /\ DistinctIds
    /\ N = 3 /\ BillingSucceeded = {2}
    /\ results[2] = TeamPhaseOutcome(2) /\ results[2] # BillingOutcome(2)

\* the processors the main loop has started for the record at position p
StartedFor(p) ==
    Len(SelectSeq(log, LAMBDA e : e.ev = "dispatch" /\ e.phase = "main"
                                   /\ \E k \in 1..Len(e.recs) : e.recs[k] = p))

\* the awaits of processCustomerStripe that a step of the batch may lead to
StepsAfter(step) ==
    CASE step = "lookup"  -> {"lookup", "cleanup", "done"}
      [] step = "cleanup" -> {"cleanup", "backoff", "done"}
      [] step = "backoff" -> {"backoff", "create"}
      [] step = "create"  -> {"create", "done"}
      [] OTHER            -> {step}

\* C37: in a stripe_only or both run the main loop starts at most one
\* processor for every record, exactly one by the end of the run, and a
\* processor goes through its awaits once: its customer lookup is the first
\* of them and is never returned to, its subscription request is entered
\* from the pause only and is followed by the return of the processor.
C37_OneLookupAtMostOneCreate ==
    /\ [](processingMode # "teams_only" =>
            \A p \in 1..N :
                /\ StartedFor(p) <= 1
                /\ (pc \in {"sync", "tloop", "tawait", "tdelay", "done"}) => StartedFor(p) = 1
                /\ \A k \in 1..Len(tasks) :
                      (pc = "await" /\ tasks[k].pos = p) => StartedFor(p) = 1)
    /\ [][(processingMode # "teams_only" /\ pc = "await" /\ pc' = "await") =>
            /\ Len(tasks') = Len(tasks)
            /\ \A k \in 1..Len(tasks) :
                  /\ tasks'[k].pos = tasks[k].pos
                  /\ tasks'[k].step \in StepsAfter(tasks[k].step)]_vars

\* a finished both run of two records: one was refused the subscription,
\* the other got it
C37_Witness ==
    /\ processingMode = "both" /\ pc = "done" /\ N = 2
    /\ \A p \in 1..N : StartedFor(p) = 1
    /\ \E q, r \in 1..N :
          /\ plan[q].found /\ plan[q].canceled /\ ~plan[q].created
          /\ r \in BillingSucceeded

\* a subscription request in flight in a stripe_only run
C37_WitnessInFlight ==
    /\ processingMode = "stripe_only" /\ pc = "await"
    /\ \E k \in 1..Len(tasks) : tasks[k].step = "create" /\ StartedFor(tasks[k].pos) = 1

\* the positions whose final outcome carries a team id
WithTeamId == {p \in 1..Len(results) : results[p].teamId # Absent}

\* C38: in every mode and for every list, lists with a repeated kindeId
\* included, at most one createTeam request is issued for a record during a
\* run, so none follows one that succeeded: a teams_only run issues exactly
\* one per record, a both run one per record that succeeded at billing, a
\* stripe_only run none.
C38_AtMostOneTeamRequest ==
    /\ \A p \in 1..N : teamCalls[p] <= 1
    /\ \A k \in 1..Len(tasks) :
          tasks[k].step \in {"team", "done"} /\ pc \in {"tawait"} => teamCalls[tasks[k].pos] = 1
    /\ pc = "done" =>
          \A p \in 1..N :
              teamCalls[p] = IF \/ processingMode = "teams_only"
                                \/ processingMode = "both" /\ p \in BillingSucceeded
                             THEN 1 ELSE 0

\* a finished both run over a list with a repeated kindeId in which every
\* record succeeded at billing and the team endpoint accepted every request
C38_Witness ==
    /\ processingMode = "both" /\ pc = "done" /\ N = 3 /\ ~DistinctIds
    /\ BillingSucceeded = 1..N
    /\ \A p \in 1..N : teamCalls[p] = 1 /\ TeamAnswer(p).success
    /\ WithTeamId # {}

\* a finished teams_only run of several batches
C38_WitnessTeamsOnly ==
    /\ processingMode = "teams_only" /\ pc = "done" /\ N = BigN
    /\ \A p \in 1..N : teamCalls[p] = 1
    /\ \E p \in 1..N : results[p].teamId # Absent
    /\ \E p \in 1..N : results[p].teamId = Absent

\* inside createTeamWithRetry: a request that the endpoint accepts is the
\* last one of the call, and the call returns its result
C38_NoRequestAfterSuccess ==
    call.fn = "createTeamWithRetry" =>
        \A j \in 1..Len(Trace) :
            (Trace[j].ev = "response" /\ createTeam(call.kindeId, Trace[j].n).success) =>
                /\ j = Len(Trace)
                /\ ret.pc = "returned"
                /\ ret.result = createTeam(call.kindeId, Trace[j].n)
                /\ Len(SelectSeq(Trace, LAMBDA d : d.ev = "response"
                                    /\ createTeam(call.kindeId, d.n).success)) = 1

\* the endpoint accepts the second request of a call
C38_ReachedSecondAccepted ==
    /\ call.fn = "createTeamWithRetry" /\ call.maxRetries = 2
    /\ ret.pc = "returned" /\ Responses = <<500, 201>> /\ Requests = 2

\* the requests a processor has issued after its lookup
AfterLookup == SelectSeq(ret.trace, LAMBDA d : d.ev \in {"cancel", "cleanup", "create"})

\* the errors the search of a lookup has answered with, in order
SearchErrors ==
    LET errs == SelectSeq(ret.trace, LAMBDA d : d.ev = "error")
    IN [k \in 1..Len(errs) |-> errs[k].err[1]]

\* C40: when the customer search ends with an error that withRetry rethrows
\* (an error that is no rate-limit error, or the rate-limit error of the
\* third attempt), the processor has returned status customer_not_found
\* with the outcome an empty search result gives, and has issued no cancel,
\* cleanup or subscription request.
C40_LookupErrorIsNotFound ==
    (call.fn = "processCustomerStripe" /\ ret.lookup \in {"error", "none"}) =>
        /\ ret.pc = "returned"
        /\ ret.result = Some(processCustomerStripe(call.customer, PlanNotFound))
        /\ ret.result[1].status = "customer_not_found"
        /\ ret.result[1].error = Some("Customer not found in Stripe")
        /\ ret.result[1].customerId = Absent
        /\ AfterLookup = <<>>
        /\ ret.lookup = "error" =>
              /\ SearchErrors # <<>>
              /\ LET last == SearchErrors[Len(SearchErrors)]
                 IN ~IsRateLimitError(last) \/ Len(SearchErrors) = DefaultMaxRetries
              /\ \A k \in 1..(Len(SearchErrors) - 1) : IsRateLimitError(SearchErrors[k])

\* the search was rate limited three times: the cap is outlasted
C40_Witness ==
    /\ call.fn = "processCustomerStripe" /\ ret.lookup = "error"
    /\ SearchErrors = <<RateLimitError, RateLimitError, RateLimitError>>
    /\ ret.result[1].status = "customer_not_found"

\* the search failed at once with an error that is no rate-limit error
C40_WitnessOtherError ==
    /\ call.fn = "processCustomerStripe" /\ ret.lookup = "error"
    /\ SearchErrors = <<ApiError>>
    /\ ret.result[1].status = "customer_not_found"

\* the search returned no customer after one rate-limit error
C40_WitnessNone ==
    /\ call.fn = "processCustomerStripe" /\ ret.lookup = "none"
    /\ SearchErrors = <<RateLimitError>>
    /\ ret.result[1].status = "customer_not_found"

\* C33: when every remote call and every timer completes, every run returns
\* its response: every batch reaches its fan-in, the main loop ends, and in
\* both mode the team phase ends too, for every input list.
C33_RunReturns == <>(pc = "done" /\ tasks = <<>> /\ running = {} /\ Len(results) = N)

\* a finished both run whose team phase took two batches
C33_Witness ==
    /\ processingMode = "both" /\ pc = "done" /\ N = LongCallsN
    /\ Len(DispatchesOf("team")) = 2 /\ Len(DelaysOf("team")) = 1
    /\ tasks = <<>> /\ running = {} /\ Len(results) = N

\* a finished stripe_only run in which a cancellation failed
C33_WitnessFailure ==
    /\ processingMode = "stripe_only" /\ pc = "done" /\ N = CallsN - 1
    /\ \E p \in 1..N : results[p].status = "cancel_failed"

\* under the same assumption every call of withRetry and of
\* createTeamWithRetry ends, within its cap
C33_RetryLoopsStop ==
    <>(/\ Finished
       /\ call.fn = "withRetry" => Invocations <= call.maxRetries
       /\ call.fn = "createTeamWithRetry" => Requests <= call.maxRetries + 1)

====
